---- MODULE Spec2Model ----
(***************************************************************************)
(* A model of the udt-rs binding (src/src/lib.rs): the typed socket-handle *)
(* layer over the native UDT engine declared in src/libudt4-sys/lib.rs.    *)
(*                                                                         *)
(* The binding's own code (UdtSocket, Epoll, the address codec, the option *)
(* descriptors) is translated from src/src/lib.rs.  The native engine is   *)
(* only declared in this repository's sources (extern block of            *)
(* libudt4-sys/lib.rs); its behaviour is modelled from its documented     *)
(* contract and kept in operators whose names start with udt_.            *)
(***************************************************************************)
EXTENDS Integers, Sequences, FiniteSets, TLC

(***************************************************************************)
(* Bounds of the model.                                                    *)
(***************************************************************************)
MaxSocks == 2
MaxPending == 1
MaxBuf == 2
MaxSets == 2
MaxLen == 2
MaxSent == 4
MaxThreads == 3

(***************************************************************************)
(* Program constants (src/libudt4-sys/lib.rs).                             *)
(***************************************************************************)
SUCCESS == 0
ENOSERVER == 1001
ENOCONN == 2002
ERESOURCE == 3000
EINVOP == 5000
EBOUNDSOCK == 5001
ECONNSOCK == 5002
EINVPARAM == 5003
EINVSOCK == 5004
EUNBOUNDSOCK == 5005
ENOLISTEN == 5006
ESTREAMILL == 5009
EDGRAMILL == 5010
ETIMEOUT == 6003
INVALID_SOCK == -1
UDT_ERROR == -1
AF_INET == 2

SockIds == 1..MaxSocks

(***************************************************************************)
(* State.                                                                  *)
(*   status, sockname, pending, registered : the engine's state            *)
(*   created, rd_vec, wr_vec               : the Epoll object              *)
(*   last                                  : what the last public call     *)
(*                                           returned                      *)
(*   opts    : the engine's option values, per socket and option, as the   *)
(*             bytes the engine holds                                      *)
(*   abi     : "documented" when the engine reports, for every option, the *)
(*             byte count of the option's documented type; "untyped" when  *)
(*             the byte count it reports is not constrained                *)
(*   set_log : the <<handle, descriptor, value>> of the latest accepted    *)
(*             setsockopt of each descriptor on each handle                *)
(*   kind    : the SocketType each socket was created with                 *)
(*   rcvq    : the engine's receive buffer of each socket: the pending     *)
(*             messages of a Datagram socket, the pending bytes of a       *)
(*             Stream socket                                               *)
(*   hist    : what the sending side's calls had accepted (sent) and what  *)
(*             the receiving side's calls have returned (rcvd) so far, and *)
(*             the number of bytes sent (n)                                *)
(*   fds     : the OS descriptors of UDP sockets that are open             *)
(*   udp_of  : the OS descriptor the engine uses for each socket bound     *)
(*             with bind_from, 0 otherwise                                 *)
(*   peername: the engine's record of the address at the other end of each *)
(*             connected socket, as a sockaddr                             *)
(*   proc    : what is process-wide: the state of init()'s static INIT,    *)
(*             where each thread is inside init(), how often udt_startup   *)
(*             and udt_cleanup have run, how many exit hooks are           *)
(*             registered, whether the process has exited                  *)
(*   epoll2  : a second Epoll object: whether it has been created, the     *)
(*             handles registered in its event set, its rd_vec and wr_vec  *)
(***************************************************************************)
VARIABLES status, sockname, pending, registered,
          created, rd_vec, wr_vec, last, opts, abi, set_log,
          kind, rcvq, hist, fds, udp_of, peername, proc, epoll2

vars == <<status, sockname, pending, registered,
          created, rd_vec, wr_vec, last, opts, abi, set_log,
          kind, rcvq, hist, fds, udp_of, peername, proc, epoll2>>

engineVars == <<status, sockname, pending, registered, opts, abi>>
epollVars == <<created, rd_vec, wr_vec>>
optVars == <<opts, abi, set_log>>
dataVars == <<kind, rcvq, hist>>
udpVars == <<fds, udp_of>>

(***************************************************************************)
(* Small helpers.                                                          *)
(***************************************************************************)
Min(a, b) == IF a < b THEN a ELSE b

Range(s) == { s[i] : i \in 1..Len(s) }

Take(s, n) == SubSeq(s, 1, Min(n, Len(s)))

\* the elements of a finite set of integers in increasing order
SortedSeq(S) ==
    CHOOSE s \in [1..Cardinality(S) -> S] :
        \A i, j \in 1..Cardinality(S) : i < j => s[i] < s[j]

Zeros(n) == [i \in 1..n |-> 0]

(***************************************************************************)
(* AddressCodec: get_sockaddr / sockaddr_to_socketaddr (linux target).     *)
(* A SocketAddr is [fam, ip, port]; ip is the sequence of the four octets  *)
(* as Ipv4Addr::octets() returns them.  A wire record is kept as the 16    *)
(* bytes it occupies in memory on the little-endian build target, which is *)
(* what std::mem::transmute between sockaddr and sockaddr_in reinterprets. *)
(***************************************************************************)
AF_INET6 == 10
SockaddrLen == 16

V4(a, b, c, d, p) ==
    [fam |-> "V4", ip |-> <<a, b, c, d>>, port |-> p, msg |-> ""]
V6Addr == [fam |-> "V6", ip |-> <<>>, port |-> 0, msg |-> ""]
NoAddr == [fam |-> "none", ip |-> <<>>, port |-> 0, msg |-> ""]
Panic(m) == [fam |-> "panic", ip |-> <<>>, port |-> 0, msg |-> m]

\* u16::to_be / u16::from_be on a little-endian host: swap the two bytes
swap_bytes16(x) == (x % 256) * 256 + (x \div 256)
to_be(x) == swap_bytes16(x % 65536)
from_be(x) == swap_bytes16(x % 65536)

\* A u32 is kept as its four bytes, least significant first (the model
\* checker's integers are narrower than u32); the operations below are the
\* ones the codec applies to u32 values.
U32(b0, b1, b2, b3) == <<b0, b1, b2, b3>>
u8_as_u32(x) == U32(x % 256, 0, 0, 0)

\* x << k for k a multiple of 8, wrapping at 32 bits
Shl32(x, k) ==
    LET n == k \div 8
    IN [i \in 1..4 |-> IF i - n >= 1 THEN x[i - n] ELSE 0]

\* x >> k for k a multiple of 8
Shr32(x, k) ==
    LET n == k \div 8
    IN [i \in 1..4 |-> IF i + n <= 4 THEN x[i + n] ELSE 0]

\* x + y on u32
Add32(x, y) ==
    LET s1 == x[1] + y[1]
        s2 == x[2] + y[2] + (s1 \div 256)
        s3 == x[3] + y[3] + (s2 \div 256)
        s4 == x[4] + y[4] + (s3 \div 256)
    IN U32(s1 % 256, s2 % 256, s3 % 256, s4 % 256)

\* x & m for a mask m whose bytes are 0x00 or 0xff
And32(x, m) == [i \in 1..4 |-> IF m[i] = 255 THEN x[i] ELSE 0]

u32_as_u8(x) == x[1]

\* in-memory images of u16 / u32 fields on the little-endian host
LE16(x) == <<x % 256, (x \div 256) % 256>>
LE32(x) == <<x[1], x[2], x[3], x[4]>>
FromLE16(b) == b[1] + 256 * b[2]
FromLE32(b) == U32(b[1], b[2], b[3], b[4])

\* get_sockaddr as it would be if an IPv6 address were encoded as the IPv4
\* wildcard address
get_sockaddr_v6_as_any(name) ==
    [sin_family |-> AF_INET % 65536,
     sin_port |-> to_be(name.port),
     s_addr |-> IF name.fam = "V4"
                THEN U32(name.ip[1], name.ip[2], name.ip[3], name.ip[4])
                ELSE U32(0, 0, 0, 0),
     sin_zero |-> Zeros(8)]

\* get_sockaddr as it would be with the port left in host byte order
get_sockaddr_port_host_order(name) ==
    IF name.fam = "V4"
    THEN LET addr_bytes == name.ip
             addr_b == Add32(Add32(Add32(
                           Shl32(u8_as_u32(addr_bytes[4]), 24),
                           Shl32(u8_as_u32(addr_bytes[3]), 16)),
                           Shl32(u8_as_u32(addr_bytes[2]), 8)),
                           u8_as_u32(addr_bytes[1]))
         IN [sin_family |-> AF_INET % 65536,
             sin_port |-> name.port,
             s_addr |-> addr_b,
             sin_zero |-> Zeros(8)]
    ELSE [panic |-> "ipv6 not implemented (yet) in this binding"]

\* get_sockaddr as it would be with the first octet shifted to the top of
\* the u32
get_sockaddr_octets_reversed(name) ==
    IF name.fam = "V4"
    THEN LET addr_bytes == name.ip
             addr_b == Add32(Add32(Add32(
                           Shl32(u8_as_u32(addr_bytes[1]), 24),
                           Shl32(u8_as_u32(addr_bytes[2]), 16)),
                           Shl32(u8_as_u32(addr_bytes[3]), 8)),
                           u8_as_u32(addr_bytes[4]))
         IN [sin_family |-> AF_INET % 65536,
             sin_port |-> to_be(name.port),
             s_addr |-> addr_b,
             sin_zero |-> Zeros(8)]
    ELSE [panic |-> "ipv6 not implemented (yet) in this binding"]

\* SocketAddr to sockaddr_in
get_sockaddr(name) ==
    IF name.fam = "V4"
    THEN LET addr_bytes == name.ip
             addr_b == Add32(Add32(Add32(
                           Shl32(u8_as_u32(addr_bytes[4]), 24),
                           Shl32(u8_as_u32(addr_bytes[3]), 16)),
                           Shl32(u8_as_u32(addr_bytes[2]), 8)),
                           u8_as_u32(addr_bytes[1]))
         IN [sin_family |-> AF_INET % 65536,
             sin_port |-> to_be(name.port),
             s_addr |-> addr_b,
             sin_zero |-> Zeros(8)]
    ELSE [panic |-> "ipv6 not implemented (yet) in this binding"]

\* the call panicked instead of returning a record
Panicked(x) == "panic" \in DOMAIN x

\* std::mem::transmute(&addr): the bytes of a sockaddr_in seen as a sockaddr
transmute_in(sin) ==
    LE16(sin.sin_family) \o LE16(sin.sin_port) \o LE32(sin.s_addr)
        \o sin.sin_zero

\* std::mem::transmute(s): the bytes of a sockaddr seen as a sockaddr_in
transmute_sa(s) ==
    [sin_family |-> FromLE16(SubSeq(s, 1, 2)),
     sin_port |-> FromLE16(SubSeq(s, 3, 4)),
     s_addr |-> FromLE32(SubSeq(s, 5, 8)),
     sin_zero |-> SubSeq(s, 9, 16)]

\* sockaddr_to_socketaddr as it would be if the family tag were not looked at
sockaddr_to_socketaddr_any_family(s) ==
    LET name1 == transmute_sa(s)
    IN V4(name1.s_addr[1], name1.s_addr[2], name1.s_addr[3], name1.s_addr[4],
          from_be(name1.sin_port))

\* sockaddr to SocketAddr
sockaddr_to_socketaddr(s) ==
    LET fam == FromLE16(SubSeq(s, 1, 2))
    IN IF fam = AF_INET
       THEN LET name1 == transmute_sa(s)
                ip == name1.s_addr
                d == u32_as_u8(Shr32(And32(ip, U32(0, 0, 0, 255)), 24))
                c == u32_as_u8(Shr32(And32(ip, U32(0, 0, 255, 0)), 16))
                b == u32_as_u8(Shr32(And32(ip, U32(0, 255, 0, 0)), 8))
                a == u32_as_u8(And32(ip, U32(255, 0, 0, 0)))
            IN V4(a, b, c, d, from_be(name1.sin_port))
       ELSE IF fam = AF_INET6
            THEN Panic("ipv6 not yet implemented")
            ELSE Panic("unknown family type")

(***************************************************************************)
(* ErrorTranslator: get_last_err reads the engine's last-error state.      *)
(* le is that state at the moment of the call: every caller reads it right *)
(* after its own failed native call, on the thread that made the call, so  *)
(* le is the code that call left.                                          *)
(***************************************************************************)
get_last_err(le) == [err_code |-> le]

(***************************************************************************)
(* What a public call returned, plus what the call observed at the engine  *)
(* boundary (native_failed, native_code) and at its start (the *0 fields). *)
(***************************************************************************)
NoRes ==
    [op |-> "none", h |-> 0, ok |-> TRUE, err_code |-> 0,
     rds |-> <<>>, wrs |-> <<>>, new |-> 0, addr |-> NoAddr,
     timeout |-> 0, write |-> FALSE,
     native_failed |-> FALSE, native_code |-> 0,
     rd_len0 |-> 0, wr_len0 |-> 0, registered0 |-> {}, listening0 |-> {},
     reported |-> FALSE,
     opt |-> "", val |-> 0, native_optname |-> -1, native_optlen |-> 0,
     name |-> NoAddr, wire |-> <<>>,
     calls |-> <<>>, panic |-> "",
     len |-> 0, ret |-> 0, data |-> <<>>, readd |-> FALSE,
     msgopts |-> <<>>, optsize |-> 0, eid |-> 0, buflen |-> 0]

\* the native function each public operation calls
NativeOf ==
    [new |-> "udt_socket", bind |-> "udt_bind", bind_from |-> "udt_bind2",
     connect |-> "udt_connect", listen |-> "udt_listen",
     accept |-> "udt_accept", close |-> "udt_close",
     getpeername |-> "udt_getpeername", getsockname |-> "udt_getsockname",
     sendmsg |-> "udt_sendmsg", send |-> "udt_send",
     recvmsg |-> "udt_recvmsg", recv |-> "udt_recv",
     getsockopt |-> "udt_getsockopt", setsockopt |-> "udt_setsockopt",
     create |-> "udt_epoll_create", add_usock |-> "udt_epoll_add_usock",
     remove_usock |-> "udt_epoll_remove_usock", wait |-> "udt_epoll_wait2"]

\* the native calls one get_last_err() makes, in order
Translate == <<"udt_getlasterror_desc", "udt_getlasterror_code">>

\* calls is the sequence of native calls the operation made
Ok(op, h) == [NoRes EXCEPT !.op = op, !.h = h, !.calls = <<NativeOf[op]>>]

\* Err(get_last_err()) after a native call that set the last error to code
Err(op, h, code) ==
    [NoRes EXCEPT !.op = op, !.h = h, !.ok = FALSE,
                  !.err_code = get_last_err(code).err_code,
                  !.native_failed = TRUE, !.native_code = code,
                  !.calls = <<NativeOf[op]>> \o Translate]

\* a public operation that panicked with message m before returning
Aborted(op, h, m) ==
    [NoRes EXCEPT !.op = op, !.h = h, !.ok = FALSE, !.panic = m]

(***************************************************************************)
(* The native engine (extern block of libudt4-sys/lib.rs), as far as the   *)
(* binding can observe it.                                                 *)
(***************************************************************************)
Allocated == { h \in SockIds : status[h] # "NONEXIST" }
Live == { h \in SockIds : status[h] \in {"OPENED", "LISTENING", "CONNECTED"} }
FreeIds == SockIds \ Allocated
NextId == CHOOSE h \in FreeIds : \A g \in FreeIds : h <= g

\* network-order image of a port, as the engine writes it into a wire record
BE16(p) == <<(p \div 256) % 256, p % 256>>
EphemeralBase == 50000
PeerPortBase == 40000

\* the wire record of 127.0.0.1:port as the engine produces it
EngineWire(port) ==
    LE16(AF_INET) \o BE16(port) \o <<127, 0, 0, 1>> \o Zeros(8)

\* udt_socket: the identifier of the new socket, or INVALID_SOCK (with
\* ERESOURCE as the last error) when the engine has no socket left to give
udt_socket == IF FreeIds = {} THEN INVALID_SOCK ELSE NextId

\* udt_bind: the failure code, or SUCCESS
udt_bind(h) ==
    IF h \notin Live THEN EINVSOCK
    ELSE IF status[h] # "OPENED" THEN ECONNSOCK
    ELSE IF sockname[h] # <<>> THEN EINVOP
    ELSE SUCCESS

\* udt_bind2 on a UDP socket the caller opened: the failure code, or SUCCESS
udt_bind2(h, udpsock) ==
    IF udt_bind(h) # SUCCESS THEN udt_bind(h)
    ELSE IF udpsock \notin fds THEN EINVPARAM
    ELSE SUCCESS

\* udt_connect to a server outside this process: the outcomes the engine
\* can produce.  The server answers or does not; a socket that was not bound
\* is bound implicitly, and may stay bound when the connection fails.
udt_connect(h) ==
    LET bound == IF sockname[h] = <<>>
                 THEN EngineWire(EphemeralBase + h)
                 ELSE sockname[h]
        failed(code) == [ret |-> UDT_ERROR, lasterr |-> code,
                         status |-> status[h], sockname |-> sockname[h]]
    IN IF h \notin Live THEN { failed(EINVSOCK) }
       ELSE IF status[h] # "OPENED" THEN { failed(ECONNSOCK) }
       ELSE { [ret |-> SUCCESS, lasterr |-> SUCCESS,
               status |-> "CONNECTED", sockname |-> bound],
              failed(ENOSERVER),
              [failed(ENOSERVER) EXCEPT !.sockname = bound] }

\* the local address the engine attaches: port 0 asks for an ephemeral port
BoundWire(h, wire) ==
    IF SubSeq(wire, 3, 4) = <<0, 0>>
    THEN SubSeq(wire, 1, 2) \o BE16(EphemeralBase + h) \o SubSeq(wire, 5, 16)
    ELSE wire

\* udt_listen as it would be if only an Opened socket could listen
udt_listen_strict(h) ==
    IF h \notin Live THEN EINVSOCK
    ELSE IF status[h] # "OPENED" THEN ECONNSOCK
    ELSE IF sockname[h] = <<>> THEN EUNBOUNDSOCK
    ELSE SUCCESS

\* udt_listen: the failure code, or SUCCESS
udt_listen(h) ==
    IF h \notin Live THEN EINVSOCK
    ELSE IF status[h] = "LISTENING" THEN SUCCESS
    ELSE IF status[h] # "OPENED" THEN ECONNSOCK
    ELSE IF sockname[h] = <<>> THEN EUNBOUNDSOCK
    ELSE SUCCESS

\* udt_accept: the failure code, or SUCCESS when a connection is queued
udt_accept(h) ==
    IF h \notin Live THEN EINVSOCK
    ELSE IF status[h] # "LISTENING" THEN ENOLISTEN
    ELSE SUCCESS

\* udt_getpeername: the failure code, or SUCCESS with peername[h] stored
udt_getpeername(h) ==
    IF h \notin Live THEN EINVSOCK
    ELSE IF status[h] # "CONNECTED" THEN ENOCONN
    ELSE SUCCESS

\* udt_getsockname: the failure code, or SUCCESS with sockname[h] stored
udt_getsockname(h) ==
    IF h \notin Live THEN EINVSOCK
    ELSE IF sockname[h] = <<>> THEN ENOCONN
    ELSE SUCCESS

\* udt_close: the failure code, or SUCCESS
udt_close(h) == IF h \notin Live THEN EINVSOCK ELSE SUCCESS

\* udt_epoll_add_usock: the failure code, or SUCCESS
udt_epoll_add_usock(h) == IF h \notin Live THEN EINVSOCK ELSE SUCCESS

\* udt_epoll_remove_usock: removing a socket that is not part of the epoll
\* is not an error
udt_epoll_remove_usock(h) == SUCCESS

\* readiness as the engine's event set sees it
ReadReady == { h \in SockIds : status[h] = "LISTENING" /\ pending[h] > 0 }
WriteReady == { h \in SockIds : status[h] = "CONNECTED" }

\* the codes a failed udt_epoll_wait2 may leave besides the timeout
WaitFaults == {EINVPARAM, EINVSOCK}

\* the engine stores the ready handles at the start of the caller's array,
\* at most cap of them, and leaves the rest of the array alone
Fill(buf, S, cap) ==
    LET srt == SortedSeq(S)
        n == Min(cap, Cardinality(S))
    IN [i \in 1..Len(buf) |-> IF i <= n THEN srt[i] ELSE buf[i]]

\* udt_epoll_wait2: the set of outcomes the engine can produce.  rnum/wnum
\* hold the array capacities on entry and the number of handles stored on
\* return; writefs is NULL when wantw is FALSE.
epoll_wait2_of(reg, readfs, rnum, writefs, wnum, wantw, msTimeOut) ==
    LET rs == ReadReady \cap reg
        ws == IF wantw THEN WriteReady \cap reg ELSE {}
    IN IF rs \cup ws # {}
       THEN { [ret |-> Cardinality(rs) + Cardinality(ws),
               readfs |-> Fill(readfs, rs, rnum),
               rnum |-> Min(rnum, Cardinality(rs)),
               writefs |-> Fill(writefs, ws, wnum),
               wnum |-> Min(wnum, Cardinality(ws)),
               lasterr |-> SUCCESS] }
       ELSE { [ret |-> -1, readfs |-> readfs, rnum |-> rnum,
               writefs |-> writefs, wnum |-> wnum, lasterr |-> c] :
              c \in (IF msTimeOut >= 0 THEN {ETIMEOUT} ELSE {})
                        \cup WaitFaults }

\* udt_epoll_wait2 on the event set of the first Epoll
udt_epoll_wait2(readfs, rnum, writefs, wnum, wantw, msTimeOut) ==
    epoll_wait2_of(registered, readfs, rnum, writefs, wnum, wantw, msTimeOut)

(***************************************************************************)
(* OptionRegistry: the descriptors of mod UdtOpts, each pinned to one      *)
(* value type by impl_udt_opt!, and raw::UDTOpt, the identifiers the       *)
(* engine is given.                                                        *)
(***************************************************************************)
\* the descriptors as they would be with UDT_MAXBW pinned to i32
OptType_MAXBW_as_i32 ==
    [UDT_MSS |-> "i32", UDT_SNDSYN |-> "bool", UDT_RCVSYN |-> "bool",
     UDT_FC |-> "i32", UDT_SNDBUF |-> "i32", UDT_RCVBUF |-> "i32",
     UDP_SNDBUF |-> "i32", UDP_RCVBUF |-> "i32", UDT_LINGER |-> "Linger",
     UDT_RENDEZVOUS |-> "bool", UDT_SNDTIMEO |-> "i32",
     UDT_RCVTIMEO |-> "i32", UDT_REUSEADDR |-> "bool", UDT_MAXBW |-> "i32",
     UDT_STATE |-> "i32", UDT_EVENT |-> "i32", UDT_SNDDATA |-> "i32",
     UDT_RCVDATA |-> "i32"]

OptType ==
    [UDT_MSS |-> "i32", UDT_SNDSYN |-> "bool", UDT_RCVSYN |-> "bool",
     UDT_FC |-> "i32", UDT_SNDBUF |-> "i32", UDT_RCVBUF |-> "i32",
     UDP_SNDBUF |-> "i32", UDP_RCVBUF |-> "i32", UDT_LINGER |-> "Linger",
     UDT_RENDEZVOUS |-> "bool", UDT_SNDTIMEO |-> "i32",
     UDT_RCVTIMEO |-> "i32", UDT_REUSEADDR |-> "bool", UDT_MAXBW |-> "i64",
     UDT_STATE |-> "i32", UDT_EVENT |-> "i32", UDT_SNDDATA |-> "i32",
     UDT_RCVDATA |-> "i32"]

UdtOpts == DOMAIN OptType

ReadOnlyOpts == {"UDT_STATE", "UDT_EVENT", "UDT_SNDDATA", "UDT_RCVDATA"}

\* getsockopt requires B: Default, which Linger does not implement
HasDefault(ty) == ty \in {"bool", "i32", "i64"}

\* std::mem::size_of::<B>()
size_of(ty) ==
    CASE ty = "bool" -> 1
      [] ty = "i32" -> 4
      [] ty = "i64" -> 8
      [] ty = "Linger" -> 8

\* raw::UDTOpt as it would be without the UDT_CC placeholder
UDTOpt_without_CC ==
    << "UDT_MSS", "UDT_SNDSYN", "UDT_RCVSYN", "UDT_FC",
       "UDT_SNDBUF", "UDT_RCVBUF", "UDT_LINGER", "UDP_SNDBUF", "UDP_RCVBUF",
       "UDT_MAXMSG", "UDT_MSGTTL", "UDT_RENDEZVOUS", "UDT_SNDTIMEO",
       "UDT_RCVTIMEO", "UDT_REUSEADDR", "UDT_MAXBW", "UDT_STATE",
       "UDT_EVENT", "UDT_SNDDATA", "UDT_RCVDATA" >>

\* raw::UDTOpt, a repr(C) enum: the identifier of an option is its position
UDTOpt ==
    << "UDT_MSS", "UDT_SNDSYN", "UDT_RCVSYN", "UDT_CC", "UDT_FC",
       "UDT_SNDBUF", "UDT_RCVBUF", "UDT_LINGER", "UDP_SNDBUF", "UDP_RCVBUF",
       "UDT_MAXMSG", "UDT_MSGTTL", "UDT_RENDEZVOUS", "UDT_SNDTIMEO",
       "UDT_RCVTIMEO", "UDT_REUSEADDR", "UDT_MAXBW", "UDT_STATE",
       "UDT_EVENT", "UDT_SNDDATA", "UDT_RCVDATA" >>

\* UdtOption::get_type: the raw::UDTOpt variant of the same name
get_type(name) == (CHOOSE i \in 1..Len(UDTOpt) : UDTOpt[i] = name) - 1

\* the bytes of a value in memory (two's complement, little-endian host)
RECURSIVE ShiftRight8(_, _)
ShiftRight8(v, k) == IF k = 0 THEN v ELSE ShiftRight8(v \div 256, k - 1)

IntBytes(v, n) == [i \in 1..n |-> ShiftRight8(v, i - 1) % 256]

RECURSIVE BytesInt(_)
BytesInt(b) ==
    IF Len(b) = 1
    THEN (IF b[1] >= 128 THEN b[1] - 256 ELSE b[1])
    ELSE BytesInt(SubSeq(b, 2, Len(b))) * 256 + b[1]

Linger(onoff, linger) == [onoff |-> onoff, linger |-> linger]

\* the raw bytes of a value of type ty (what the pointer passed to the
\* engine points at).  A bool and an i32 are kept as values; an i64, wider
\* than the model checker's integers, is kept as its eight bytes.
raw_bytes(ty, v) ==
    CASE ty = "bool" -> << IF v THEN 1 ELSE 0 >>
      [] ty = "i32" -> IntBytes(v, 4)
      [] ty = "i64" -> v
      [] ty = "Linger" -> IntBytes(v.onoff, 4) \o IntBytes(v.linger, 4)

\* the value of type ty held in a buffer of size_of(ty) bytes
from_raw(ty, b) ==
    CASE ty = "bool" -> (b[1] # 0)
      [] ty = "i32" -> BytesInt(SubSeq(b, 1, 4))
      [] ty = "i64" -> SubSeq(b, 1, 8)
      [] ty = "Linger" -> Linger(BytesInt(SubSeq(b, 1, 4)),
                                 BytesInt(SubSeq(b, 5, 8)))

(***************************************************************************)
(* The engine's option table.                                              *)
(***************************************************************************)
\* the option identifiers as the engine numbers them
EngineOptTable ==
    << "UDT_MSS", "UDT_SNDSYN", "UDT_RCVSYN", "UDT_CC", "UDT_FC",
       "UDT_SNDBUF", "UDT_RCVBUF", "UDT_LINGER", "UDP_SNDBUF", "UDP_RCVBUF",
       "UDT_MAXMSG", "UDT_MSGTTL", "UDT_RENDEZVOUS", "UDT_SNDTIMEO",
       "UDT_RCVTIMEO", "UDT_REUSEADDR", "UDT_MAXBW", "UDT_STATE",
       "UDT_EVENT", "UDT_SNDDATA", "UDT_RCVDATA" >>

EngineOptName(n) == EngineOptTable[n + 1]

\* the options a fresh socket holds, with their documented defaults
DefaultOpts ==
    [UDT_MSS |-> IntBytes(1500, 4),
     UDT_SNDSYN |-> <<1>>,
     UDT_RCVSYN |-> <<1>>,
     UDT_FC |-> IntBytes(25600, 4),
     UDT_SNDBUF |-> IntBytes(10240000, 4),
     UDT_RCVBUF |-> IntBytes(10240000, 4),
     UDP_SNDBUF |-> IntBytes(1024000, 4),
     UDP_RCVBUF |-> IntBytes(1024000, 4),
     UDT_LINGER |-> IntBytes(1, 4) \o IntBytes(180, 4),
     UDT_RENDEZVOUS |-> <<0>>,
     UDT_SNDTIMEO |-> IntBytes(-1, 4),
     UDT_RCVTIMEO |-> IntBytes(-1, 4),
     UDT_REUSEADDR |-> <<1>>,
     UDT_MAXBW |-> IntBytes(-1, 8)]

EngineWritable == DOMAIN DefaultOpts
EngineReadOnly == {"UDT_STATE", "UDT_EVENT", "UDT_SNDDATA", "UDT_RCVDATA"}

\* the options whose value is a size or a count and must be positive
EnginePositive ==
    {"UDT_MSS", "UDT_FC", "UDT_SNDBUF", "UDT_RCVBUF", "UDP_SNDBUF",
     "UDP_RCVBUF"}

\* UdtStatus discriminants
StatusNum(st) ==
    CASE st = "OPENED" -> 2
      [] st = "LISTENING" -> 3
      [] st = "CONNECTED" -> 5
      [] st = "CLOSED" -> 8
      [] st = "NONEXIST" -> 9

\* the bytes the engine holds for an option of a socket
EngineValue(h, name) ==
    IF name \in EngineWritable THEN opts[h][name]
    ELSE IF name = "UDT_STATE" THEN IntBytes(StatusNum(status[h]), 4)
    ELSE IntBytes(0, 4)

\* udt_setsockopt: the failure code, or SUCCESS.  The engine reads as many
\* bytes from optval as the option's type has.
udt_setsockopt(h, optname, optval, optlen) ==
    LET name == EngineOptName(optname)
    IN IF h \notin Live THEN EINVSOCK
       ELSE IF name \notin EngineWritable THEN EINVOP
       ELSE IF optlen < Len(DefaultOpts[name]) THEN EINVPARAM
       ELSE IF /\ name \in EnginePositive
               /\ BytesInt(SubSeq(optval, 1, 4)) <= 0 THEN EINVPARAM
       ELSE SUCCESS

\* udt_getsockopt: the failure code, or SUCCESS
udt_getsockopt(h, optname) ==
    LET name == EngineOptName(optname)
    IN IF h \notin Live THEN EINVSOCK
       ELSE IF name \notin EngineWritable \cup EngineReadOnly THEN EINVOP
       ELSE SUCCESS

\* the byte counts the engine may report for an option through *optlen: the
\* size of the option's type, or under the untyped ABI any count that fits
\* the caller's buffer
EngineOptLens(h, name, cap) ==
    IF abi = "documented"
    THEN { Len(EngineValue(h, name)) }
    ELSE 1..cap

\* the caller's buffer after the engine has stored n bytes of value in it
StoreBytes(buf, value, n) ==
    [i \in 1..Len(buf) |->
        IF i <= n /\ i <= Len(value) THEN value[i] ELSE buf[i]]

(***************************************************************************)
(* The engine's data plane between the two ends of one connection.  What   *)
(* one end sends is held in the other end's receive buffer until it is     *)
(* read; the buffer holds at most QueueCap messages (Datagram) or bytes    *)
(* (Stream).                                                               *)
(***************************************************************************)
SocketTypes == {"Stream", "Datagram"}

\* the two ends of the connection: Client sends, Server receives
Client == 1
Server == 2
Peer(h) == IF h = Client THEN Server ELSE Client

QueueCap == MaxLen

\* why the engine refuses a data call of the given kind on h, or SUCCESS
DataFault(h, want) ==
    IF h \notin Live THEN EINVSOCK
    ELSE IF kind[h] # want
         THEN (IF want = "Datagram" THEN ESTREAMILL ELSE EDGRAMILL)
    ELSE IF status[h] # "CONNECTED" THEN ENOCONN
    ELSE SUCCESS

\* a data call the engine refused with code: nothing moved
Refused(h, code) ==
    [ret |-> UDT_ERROR, lasterr |-> code, data |-> <<>>, q |-> rcvq[h]]

\* the receive timeout of h in milliseconds (-1: wait for ever)
RcvTimeo(h) == BytesInt(opts[h]["UDT_RCVTIMEO"])

\* q with the message m put in after its first k messages
InsertAt(q, k, m) == SubSeq(q, 1, k) \o <<m>> \o SubSeq(q, k + 1, Len(q))

\* udt_sendmsg: the whole message is accepted, or the call waits for room
\* (no outcome); q is the peer's receive buffer afterwards.  A message sent
\* with inorder 0 may overtake the messages still pending at the peer; one
\* sent with a ttl that is not negative may be discarded instead of
\* delivered when the ttl runs out first.
udt_sendmsg(h, buf, ttl, inorder) ==
    LET q == rcvq[Peer(h)]
        places == IF inorder # 0 THEN { Len(q) } ELSE 0..Len(q)
    IN IF DataFault(h, "Datagram") # SUCCESS
       THEN { [Refused(h, DataFault(h, "Datagram")) EXCEPT !.q = q] }
       ELSE IF Len(q) >= QueueCap THEN {}
       ELSE { [ret |-> Len(buf), lasterr |-> SUCCESS, data |-> <<>>,
               q |-> d] :
              d \in { InsertAt(q, k, buf) : k \in places }
                       \cup (IF ttl >= 0 THEN { q } ELSE {}) }

\* udt_recvmsg: the first pending message is copied, as far as cap allows,
\* and discarded whole.  With nothing pending the call waits (no outcome);
\* when a positive UDT_RCVTIMEO expires it reports the timeout, or returns
\* zero without reporting a failure.
udt_recvmsg(h, cap) ==
    IF DataFault(h, "Datagram") # SUCCESS
    THEN { Refused(h, DataFault(h, "Datagram")) }
    ELSE IF rcvq[h] = <<>>
    THEN (IF RcvTimeo(h) > 0
          THEN { Refused(h, ETIMEOUT), [Refused(h, SUCCESS) EXCEPT !.ret = 0] }
          ELSE {})
    ELSE { [ret |-> Min(cap, Len(Head(rcvq[h]))), lasterr |-> SUCCESS,
            data |-> Take(Head(rcvq[h]), cap), q |-> Tail(rcvq[h])] }

\* udt_send: as many bytes as the peer's buffer has room for are queued, or
\* the call waits for room (no outcome)
udt_send(h, buf) ==
    LET room == QueueCap - Len(rcvq[Peer(h)])
    IN IF DataFault(h, "Stream") # SUCCESS
       THEN { [Refused(h, DataFault(h, "Stream")) EXCEPT !.q = rcvq[Peer(h)]] }
       ELSE IF room <= 0 THEN {}
       ELSE { [ret |-> Min(Len(buf), room), lasterr |-> SUCCESS,
               data |-> <<>>, q |-> rcvq[Peer(h)] \o Take(buf, room)] }

\* udt_recv: the pending bytes are copied, as far as cap allows, and removed
udt_recv(h, cap) ==
    IF DataFault(h, "Stream") # SUCCESS
    THEN { Refused(h, DataFault(h, "Stream")) }
    ELSE IF rcvq[h] = <<>>
    THEN (IF RcvTimeo(h) > 0 THEN { Refused(h, ETIMEOUT) } ELSE {})
    ELSE { [ret |-> Min(cap, Len(rcvq[h])), lasterr |-> SUCCESS,
            data |-> Take(rcvq[h], cap),
            q |-> SubSeq(rcvq[h], Min(cap, Len(rcvq[h])) + 1, Len(rcvq[h]))] }

\* the last error of the calling thread when the engine has just returned
\* without reporting one: SUCCESS, or the code of an earlier failure
StaleCodes == {SUCCESS, EINVSOCK}

(***************************************************************************)
(* Inputs of the public calls.                                             *)
(***************************************************************************)
BindAddrs == { V4(127, 0, 0, 1, 0) }
\* the addresses bind and connect are given when the caller may hold an
\* IPv6 address
LifeAddrs == BindAddrs \cup { V6Addr }
NameAddrs == BindAddrs \cup { V4(127, 0, 0, 1, 8080) }
ConnectAddrs == { V4(127, 0, 0, 1, PeerPortBase), V6Addr }
Timeouts == { -1, 1000 }
RcvTimeos == { -1, 1400 }
OptVals(ty) ==
    CASE ty = "bool" -> BOOLEAN
      [] ty = "i32" -> { -1, 1400 }
      [] ty = "i64" -> { IntBytes(-1, 8), IntBytes(1000000, 8) }
      [] ty = "Linger" -> {}   \* private fields, no constructor, no Default

\* the IPv4 addresses handed to the codec: every combination of the octets
\* and ports at the edges of a byte and of a 16-bit word
Octets == {0, 1, 127, 128, 255}
Ports == {0, 1, 255, 256, 8080, 65535}
AddrInputs == { V4(a, b, c, d, p) : a, b, c, d \in Octets, p \in Ports }

\* the wire records the engine hands back (accept, getpeername,
\* getsockname): sa_family is a u16, the rest is an address of that family
FamilyTags == {0, 1, AF_INET, AF_INET6, 255, 258, 522, 65535}
WireInputs ==
    { LE16(tag) \o BE16(p) \o <<a, 0, 0, b>> \o Zeros(8) :
        tag \in FamilyTags, p \in Ports, a, b \in Octets }

\* Threads of the process that may call init()
Threads == 1..MaxThreads

\* the process before any init(): INIT is ONCE_INIT and no thread is in init()
\* an Epoll that has not been created
NoEpoll ==
    [created |-> FALSE, registered |-> {}, rd_vec |-> <<>>, wr_vec |-> <<>>]

NoProc ==
    [INIT |-> "INCOMPLETE", pc |-> [t \in Threads |-> "idle"],
     startups |-> 0, hooks |-> 0, cleanups |-> 0, exited |-> FALSE,
     lasterr |-> SUCCESS, own |-> [t \in Threads |-> SUCCESS]]

\* nothing sent, nothing received
NoHist == [sent |-> <<>>, rcvd |-> <<>>, n |-> 0]

InitEngine(engine_abi) ==
    /\ status = [h \in SockIds |-> "NONEXIST"]
    /\ sockname = [h \in SockIds |-> <<>>]
    /\ pending = [h \in SockIds |-> 0]
    /\ registered = {}
    /\ created = FALSE
    /\ rd_vec = <<>>
    /\ wr_vec = <<>>
    /\ opts = [h \in SockIds |-> DefaultOpts]
    /\ abi = engine_abi
    /\ set_log = {}
    /\ kind = [h \in SockIds |-> "Stream"]
    /\ rcvq = [h \in SockIds |-> <<>>]
    /\ hist = NoHist
    /\ fds = {}
    /\ udp_of = [h \in SockIds |-> 0]
    /\ peername = [h \in SockIds |-> <<>>]
    /\ proc = NoProc
    /\ epoll2 = NoEpoll

InitWith(engine_abi) == InitEngine(engine_abi) /\ last = NoRes

Init == InitWith("documented")
InitUntyped == InitWith("untyped")

\* a caller holds a SocketAddr it is about to pass to bind or connect, or
\* the engine has filled in a sockaddr that is about to be decoded
InitAddr ==
    /\ InitEngine("documented")
    /\ last \in { [NoRes EXCEPT !.op = "SocketAddr", !.name = a] :
                     a \in AddrInputs }
                \cup { [NoRes EXCEPT !.op = "sockaddr", !.wire = w] :
                          w \in WireInputs }

(***************************************************************************)
(* init(): INIT.call_once(|| { udt_startup(); assert_eq!(atexit(shutdown), *)
(* 0) }), one step per thread at a time.  A thread that finds INIT running *)
(* in another thread waits inside call_once.                               *)
(***************************************************************************)
notInit ==
    <<engineVars, epollVars, set_log, last, dataVars, udpVars, peername,
      epoll2>>

\* a thread calls init()
init_call(t) ==
    /\ ~proc.exited
    /\ proc.pc[t] = "idle"
    /\ proc' = [proc EXCEPT !.pc[t] = "call_once"]
    /\ UNCHANGED notInit

\* call_once as it would be without the Once: every caller runs the closure
call_always(t) ==
    /\ ~proc.exited
    /\ proc.pc[t] = "call_once"
    /\ proc' = [proc EXCEPT !.pc[t] = "udt_startup"]
    /\ UNCHANGED notInit

\* Once::call_once: the first caller runs the closure, a caller that finds
\* the closure done returns, one that finds it panicked panics
call_once(t) ==
    /\ ~proc.exited
    /\ proc.pc[t] = "call_once"
    /\ proc.INIT # "RUNNING"
    /\ proc' = CASE proc.INIT = "INCOMPLETE" ->
                      [proc EXCEPT !.INIT = "RUNNING",
                                   !.pc[t] = "udt_startup"]
                 [] proc.INIT = "COMPLETE" ->
                      [proc EXCEPT !.pc[t] = "returned"]
                 [] proc.INIT = "POISONED" ->
                      [proc EXCEPT !.pc[t] = "panicked"]
    /\ UNCHANGED notInit

\* the closure: raw::udt_startup()
startup(t) ==
    /\ ~proc.exited
    /\ proc.pc[t] = "udt_startup"
    /\ proc.startups <= MaxThreads
    /\ proc' = [proc EXCEPT !.startups = @ + 1, !.pc[t] = "atexit"]
    /\ UNCHANGED notInit

\* the closure: assert_eq!(libc::atexit(shutdown), 0), then the end of
\* call_once.  atexit returns 0 and has registered shutdown, or returns
\* nonzero and has not: the assertion panics and poisons INIT.
atexit(t) ==
    /\ ~proc.exited
    /\ proc.pc[t] = "atexit"
    /\ \E ret \in {0, -1} :
         proc' = IF ret = 0
                 THEN [proc EXCEPT !.hooks = @ + 1, !.INIT = "COMPLETE",
                                   !.pc[t] = "returned"]
                 ELSE [proc EXCEPT !.INIT = "POISONED",
                                   !.pc[t] = "panicked"]
    /\ UNCHANGED notInit

\* the caller goes on after init() has returned
init_return(t) ==
    /\ ~proc.exited
    /\ proc.pc[t] = "returned"
    /\ proc' = [proc EXCEPT !.pc[t] = "idle"]
    /\ UNCHANGED notInit

\* the process exits: every registered shutdown hook runs udt_cleanup(),
\* and no thread runs any further
exit ==
    /\ ~proc.exited
    /\ proc' = [proc EXCEPT !.exited = TRUE, !.cleanups = proc.hooks]
    /\ UNCHANGED notInit

NextInit ==
    \/ \E t \in Threads : init_call(t)
    \/ \E t \in Threads : call_once(t)
    \/ \E t \in Threads : startup(t)
    \/ \E t \in Threads : atexit(t)
    \/ \E t \in Threads : init_return(t)
    \/ exit

SpecInit == Init /\ [][NextInit]_vars

(***************************************************************************)
(* UdtSocket: lifecycle.                                                   *)
(***************************************************************************)
\* new as it would be without the test for INVALID_SOCK
new_wraps_invalid(ty) ==
    /\ LET fd == udt_socket
       IN IF fd = INVALID_SOCK
          THEN /\ last' = [Ok("new", 0) EXCEPT !.new = fd]
               /\ UNCHANGED <<status, kind, opts>>
          ELSE /\ status' = [status EXCEPT ![fd] = "OPENED"]
               /\ kind' = [kind EXCEPT ![fd] = ty]
               /\ opts' = [opts EXCEPT ![fd] = DefaultOpts]
               /\ last' = [Ok("new", fd) EXCEPT !.new = fd]
    /\ UNCHANGED <<sockname, pending, registered, epollVars>>
    /\ UNCHANGED <<abi, set_log>>
    /\ UNCHANGED <<rcvq, hist, udpVars, peername, proc, epoll2>>

\* UdtSocket::new (address_family is SocketFamily::AFInet throughout)
new(ty) ==
    /\ LET fd == udt_socket
       IN IF fd = INVALID_SOCK
          THEN /\ last' = Err("new", 0, ERESOURCE)
               /\ UNCHANGED <<status, kind, opts>>
          ELSE /\ status' = [status EXCEPT ![fd] = "OPENED"]
               /\ kind' = [kind EXCEPT ![fd] = ty]
               /\ opts' = [opts EXCEPT ![fd] = DefaultOpts]
               /\ last' = [Ok("new", fd) EXCEPT !.new = fd]
    /\ UNCHANGED <<sockname, pending, registered, epollVars>>
    /\ UNCHANGED <<abi, set_log>>
    /\ UNCHANGED <<rcvq, hist, udpVars, peername, proc, epoll2>>

\* UdtSocket::bind
bind(h, name) ==
    /\ h \in Allocated
    /\ LET addr == get_sockaddr(name)
       IN IF Panicked(addr)
          THEN /\ last' = [Aborted("bind", h, addr.panic) EXCEPT
                             !.name = name]
               /\ UNCHANGED sockname
          ELSE LET wire == transmute_in(addr)
                   ret == udt_bind(h)
               IN IF ret = SUCCESS
                  THEN /\ sockname' =
                             [sockname EXCEPT ![h] = BoundWire(h, wire)]
                       /\ last' = [Ok("bind", h) EXCEPT
                                     !.name = name, !.wire = wire]
                  ELSE /\ last' = [Err("bind", h, ret) EXCEPT
                                     !.name = name, !.wire = wire]
                       /\ UNCHANGED sockname
    /\ UNCHANGED <<status, pending, registered, epollVars, optVars>>
    /\ UNCHANGED <<dataVars, udpVars, peername, proc, epoll2>>

\* std::net::UdpSocket::bind by the caller: the OS hands out the lowest
\* descriptor that is not open
UdpSocket_bind ==
    /\ Cardinality(fds) < MaxSocks
    /\ fds' = fds \cup { CHOOSE fd \in 1..MaxSocks :
                            fd \notin fds /\ \A g \in 1..(fd - 1) : g \in fds }
    /\ UNCHANGED <<engineVars, epollVars, set_log, last, dataVars, udp_of>>
    /\ UNCHANGED <<peername, proc, epoll2>>

\* UdtSocket::bind_from.  other is moved into the call and dropped when the
\* call returns: dropping a UdpSocket closes its descriptor.
bind_from(h, other) ==
    /\ h \in Allocated
    /\ other \in fds
    /\ LET ret == udt_bind2(h, other)
       IN IF ret = SUCCESS
          THEN /\ sockname' = [sockname EXCEPT
                                 ![h] = EngineWire(EphemeralBase + h)]
               /\ udp_of' = [udp_of EXCEPT ![h] = other]
               /\ last' = Ok("bind_from", h)
          ELSE /\ last' = Err("bind_from", h, ret)
               /\ UNCHANGED <<sockname, udp_of>>
    /\ fds' = fds \ {other}
    /\ UNCHANGED <<status, pending, registered, epollVars, optVars, dataVars>>
    /\ UNCHANGED <<peername, proc, epoll2>>

\* UdtSocket::connect
connect(h, name) ==
    /\ h \in Allocated
    /\ LET addr == get_sockaddr(name)
       IN IF Panicked(addr)
          THEN /\ last' = [Aborted("connect", h, addr.panic) EXCEPT
                             !.name = name]
               /\ UNCHANGED <<status, sockname, peername>>
          ELSE LET wire == transmute_in(addr)
               IN \E out \in udt_connect(h) :
                    /\ status' = [status EXCEPT ![h] = out.status]
                    /\ sockname' = [sockname EXCEPT ![h] = out.sockname]
                    /\ peername' = IF out.ret = SUCCESS
                                   THEN [peername EXCEPT ![h] = wire]
                                   ELSE peername
                    /\ last' =
                         IF out.ret = SUCCESS
                         THEN [Ok("connect", h) EXCEPT
                                 !.name = name, !.wire = wire]
                         ELSE [Err("connect", h, out.lasterr) EXCEPT
                                 !.name = name, !.wire = wire]
    /\ UNCHANGED <<pending, registered, epollVars, optVars>>
    /\ UNCHANGED <<dataVars, udpVars, proc, epoll2>>

\* listen that does not look at what udt_listen returned
listen_ignores_ret(h) ==
    /\ h \in Allocated
    /\ LET ret == udt_listen(h)
       IN IF ret = SUCCESS
          THEN /\ status' = [status EXCEPT ![h] = "LISTENING"]
               /\ last' = Ok("listen", h)
          ELSE /\ last' = Ok("listen", h)
               /\ UNCHANGED status
    /\ UNCHANGED <<sockname, pending, registered, epollVars, optVars>>
    /\ UNCHANGED <<dataVars, udpVars, peername, proc, epoll2>>

\* UdtSocket::listen (listening0: the handles Listening before the call)
listen(h) ==
    /\ h \in Allocated
    /\ LET ret == udt_listen(h)
           listening == { g \in SockIds : status[g] = "LISTENING" }
       IN IF ret = SUCCESS
          THEN /\ status' = [status EXCEPT ![h] = "LISTENING"]
               /\ last' = [Ok("listen", h) EXCEPT !.listening0 = listening]
          ELSE /\ last' = [Err("listen", h, ret) EXCEPT
                             !.listening0 = listening]
               /\ UNCHANGED status
    /\ UNCHANGED <<sockname, pending, registered, epollVars, optVars>>
    /\ UNCHANGED <<dataVars, udpVars, peername, proc, epoll2>>

\* a peer connects to a listening socket: the engine queues the connection
PeerConnect(h) ==
    /\ status[h] = "LISTENING"
    /\ pending[h] < MaxPending
    /\ pending' = [pending EXCEPT ![h] = @ + 1]
    /\ UNCHANGED <<status, sockname, registered, epollVars, last>>
    /\ UNCHANGED optVars
    /\ UNCHANGED <<dataVars, udpVars, peername, proc, epoll2>>

\* accept that wraps the listener's own identifier instead of the one the
\* engine returned
accept_wraps_listener(h) ==
    /\ h \in Allocated
    /\ LET ret == udt_accept(h)
           was_reported == /\ last.op = "wait"
                           /\ last.ok
                           /\ h \in Range(last.rds)
       IN IF ret = SUCCESS
          THEN /\ pending[h] > 0
               /\ FreeIds # {}
               /\ LET fd == NextId
                      peer == EngineWire(PeerPortBase + fd)
                  IN /\ status' = [status EXCEPT ![fd] = "CONNECTED"]
                     /\ sockname' = [sockname EXCEPT ![fd] = sockname[h]]
                     /\ opts' = [opts EXCEPT ![fd] = opts[h]]
                     /\ peername' = [peername EXCEPT ![fd] = peer]
                     /\ pending' = [pending EXCEPT ![h] = @ - 1]
                     /\ last' = [Ok("accept", h) EXCEPT
                                   !.new = h,
                                   !.addr = sockaddr_to_socketaddr(peer),
                                   !.reported = was_reported]
          ELSE /\ last' = [Err("accept", h, ret) EXCEPT
                             !.reported = was_reported]
               /\ UNCHANGED <<status, sockname, pending, opts, peername>>
    /\ UNCHANGED <<registered, epollVars, abi, set_log>>
    /\ UNCHANGED <<dataVars, udpVars, proc, epoll2>>

\* UdtSocket::accept.  On a blocking socket the engine does not return while
\* the queue is empty.
accept(h) ==
    /\ h \in Allocated
    /\ LET ret == udt_accept(h)
           was_reported == /\ last.op = "wait"
                           /\ last.ok
                           /\ h \in Range(last.rds)
       IN IF ret = SUCCESS
          THEN /\ pending[h] > 0
               /\ FreeIds # {}
               /\ LET fd == NextId
                      peer == EngineWire(PeerPortBase + fd)
                  IN /\ status' = [status EXCEPT ![fd] = "CONNECTED"]
                     /\ sockname' = [sockname EXCEPT ![fd] = sockname[h]]
                     /\ opts' = [opts EXCEPT ![fd] = opts[h]]
                     /\ peername' = [peername EXCEPT ![fd] = peer]
                     /\ pending' = [pending EXCEPT ![h] = @ - 1]
                     /\ last' = [Ok("accept", h) EXCEPT
                                   !.new = fd,
                                   !.addr = sockaddr_to_socketaddr(peer),
                                   !.reported = was_reported]
          ELSE /\ last' = [Err("accept", h, ret) EXCEPT
                             !.reported = was_reported]
               /\ UNCHANGED <<status, sockname, pending, opts, peername>>
    /\ UNCHANGED <<registered, epollVars, abi, set_log>>
    /\ UNCHANGED <<dataVars, udpVars, proc, epoll2>>

\* getpeername and getsockname: the engine has answered ret and, on
\* success, stored name in the zeroed sockaddr, which is then decoded
getname(op, h, ret, name) ==
    /\ h \in Allocated
    /\ last' = IF ret # SUCCESS THEN Err(op, h, ret)
               ELSE IF sockaddr_to_socketaddr(name).fam = "panic"
               THEN Aborted(op, h, sockaddr_to_socketaddr(name).msg)
               ELSE [Ok(op, h) EXCEPT
                       !.wire = name,
                       !.addr = sockaddr_to_socketaddr(name)]
    /\ UNCHANGED <<engineVars, epollVars, set_log>>
    /\ UNCHANGED <<dataVars, udpVars, peername, proc, epoll2>>

\* getpeername that calls udt_getsockname
getpeername_asks_sockname(h) ==
    getname("getpeername", h, udt_getsockname(h), sockname[h])

\* UdtSocket::getpeername
getpeername(h) == getname("getpeername", h, udt_getpeername(h), peername[h])

\* getsockname that calls udt_getpeername
getsockname_asks_peername(h) ==
    getname("getsockname", h, udt_getpeername(h), peername[h])

\* UdtSocket::getsockname
getsockname(h) == getname("getsockname", h, udt_getsockname(h), sockname[h])

\* UdtSocket::close (a UdtSocket is Copy: a copy may be closed again)
close(h) ==
    /\ h \in Allocated
    /\ LET ret == udt_close(h)
       IN IF ret = SUCCESS
          THEN /\ status' = [status EXCEPT ![h] = "CLOSED"]
               /\ pending' = [pending EXCEPT ![h] = 0]
               /\ last' = Ok("close", h)
          ELSE /\ last' = Err("close", h, ret)
               /\ UNCHANGED <<status, pending>>
    /\ UNCHANGED <<sockname, registered, epollVars, optVars>>
    /\ UNCHANGED <<dataVars, udpVars, peername, proc, epoll2>>

(***************************************************************************)
(* Epoll.                                                                  *)
(***************************************************************************)
\* Epoll::create
create ==
    /\ ~created
    /\ created' = TRUE
    /\ rd_vec' = <<>>
    /\ wr_vec' = <<>>
    /\ last' = Ok("create", 0)
    /\ UNCHANGED <<engineVars, set_log>>
    /\ UNCHANGED <<dataVars, udpVars, peername, proc, epoll2>>

\* the call before this one was a remove_usock that took h, which had been
\* registered, out of the event set
JustRemoved(h) ==
    /\ last.op = "remove_usock" /\ last.ok
    /\ last.h = h /\ h \in last.registered0

\* add_usock as it would be if the read buffer were not grown
add_usock_no_rd_push(h) ==
    /\ created
    /\ h \in Allocated
    /\ Len(wr_vec) < MaxBuf
    /\ LET ret == udt_epoll_add_usock(h)
       IN IF ret = 0
          THEN /\ registered' = registered \cup {h}
               /\ wr_vec' = Append(wr_vec, -1)
               /\ last' = Ok("add_usock", h)
               /\ UNCHANGED rd_vec
          ELSE /\ last' = Err("add_usock", h, ret)
               /\ UNCHANGED <<registered, rd_vec, wr_vec>>
    /\ UNCHANGED <<status, sockname, pending, created, optVars>>
    /\ UNCHANGED <<dataVars, udpVars, peername, proc, epoll2>>

\* add_usock as it would be with the test of the native result inverted
add_usock_inverted(h) ==
    /\ created
    /\ h \in Allocated
    /\ Len(rd_vec) < MaxBuf
    /\ LET ret == udt_epoll_add_usock(h)
       IN IF ret # 0
          THEN /\ wr_vec' = Append(wr_vec, -1)
               /\ rd_vec' = Append(rd_vec, -1)
               /\ last' = [Ok("add_usock", h) EXCEPT
                             !.readd = JustRemoved(h)]
               /\ UNCHANGED registered
          ELSE /\ registered' = registered \cup {h}
               /\ last' = [Err("add_usock", h, EINVSOCK) EXCEPT
                             !.readd = JustRemoved(h)]
               /\ UNCHANGED <<rd_vec, wr_vec>>
    /\ UNCHANGED <<status, sockname, pending, created, optVars>>
    /\ UNCHANGED <<dataVars, udpVars, peername, proc, epoll2>>

\* Epoll::add_usock
add_usock(h) ==
    /\ created
    /\ h \in Allocated
    /\ Len(rd_vec) < MaxBuf
    /\ LET ret == udt_epoll_add_usock(h)
       IN IF ret = 0
          THEN /\ registered' = registered \cup {h}
               /\ wr_vec' = Append(wr_vec, -1)
               /\ rd_vec' = Append(rd_vec, -1)
               /\ last' = [Ok("add_usock", h) EXCEPT
                             !.readd = JustRemoved(h)]
          ELSE /\ last' = [Err("add_usock", h, ret) EXCEPT
                             !.readd = JustRemoved(h)]
               /\ UNCHANGED <<registered, rd_vec, wr_vec>>
    /\ UNCHANGED <<status, sockname, pending, created, optVars>>
    /\ UNCHANGED <<dataVars, udpVars, peername, proc, epoll2>>

\* remove_usock as it would be with the test of the native result inverted
remove_usock_inverted(h) ==
    /\ created
    /\ h \in Allocated
    /\ LET ret == udt_epoll_remove_usock(h)
       IN IF ret # 0
          THEN /\ registered' = registered \ {h}
               /\ last' = [Ok("remove_usock", h) EXCEPT
                             !.registered0 = registered]
          ELSE /\ last' = [Err("remove_usock", h, EINVSOCK) EXCEPT
                             !.registered0 = registered]
               /\ UNCHANGED registered
    /\ UNCHANGED <<status, sockname, pending, epollVars, optVars>>
    /\ UNCHANGED <<dataVars, udpVars, peername, proc, epoll2>>

\* remove_usock as it would be if it took an entry off each buffer
remove_usock_pops(h) ==
    /\ created
    /\ h \in Allocated
    /\ LET ret == udt_epoll_remove_usock(h)
       IN IF ret = 0
          THEN /\ registered' = registered \ {h}
               /\ rd_vec' = SubSeq(rd_vec, 1, Len(rd_vec) - 1)
               /\ wr_vec' = SubSeq(wr_vec, 1, Len(wr_vec) - 1)
               /\ last' = [Ok("remove_usock", h) EXCEPT
                             !.registered0 = registered]
          ELSE /\ last' = [Err("remove_usock", h, ret) EXCEPT
                             !.registered0 = registered]
               /\ UNCHANGED <<registered, rd_vec, wr_vec>>
    /\ UNCHANGED <<status, sockname, pending, created, optVars>>
    /\ UNCHANGED <<dataVars, udpVars, peername, proc, epoll2>>

\* Epoll::remove_usock
remove_usock(h) ==
    /\ created
    /\ h \in Allocated
    /\ LET ret == udt_epoll_remove_usock(h)
       IN IF ret = 0
          THEN /\ registered' = registered \ {h}
               /\ last' = [Ok("remove_usock", h) EXCEPT
                             !.registered0 = registered]
          ELSE /\ last' = [Err("remove_usock", h, ret) EXCEPT
                             !.registered0 = registered]
               /\ UNCHANGED registered
    /\ UNCHANGED <<status, sockname, pending, epollVars, optVars>>
    /\ UNCHANGED <<dataVars, udpVars, peername, proc, epoll2>>

\* wait after the native call as it would be if the whole buffers were
\* returned, not the first rnum and wnum entries
wait_return_whole_buffers(at_start, out, readfs, writefs, intercepted) ==
    LET e == get_last_err(out.lasterr)
    IN IF out.ret < 0 /\ e.err_code \notin intercepted
       THEN [at_start EXCEPT
               !.ok = FALSE,
               !.err_code = get_last_err(out.lasterr).err_code,
               !.native_failed = TRUE,
               !.native_code = out.lasterr,
               !.calls = <<NativeOf.wait>> \o Translate \o Translate]
       ELSE [at_start EXCEPT
               !.rds = IF out.ret < 0 THEN <<>> ELSE readfs,
               !.wrs = IF out.ret < 0 \/ ~at_start.write THEN <<>>
                       ELSE writefs,
               !.native_failed = (out.ret < 0),
               !.native_code = IF out.ret < 0 THEN out.lasterr ELSE 0,
               !.calls = IF out.ret < 0
                         THEN <<NativeOf.wait>> \o Translate
                         ELSE <<NativeOf.wait>>]

\* Epoll::wait after the native call: what the call returns once the engine
\* has answered out.  intercepted is the set of last-error codes that are
\* turned into an empty result instead of being returned as Err.
wait_return(at_start, out, readfs, writefs, intercepted) ==
    LET e == get_last_err(out.lasterr)
        rnum == IF out.ret < 0 THEN 0 ELSE out.rnum
        wnum == IF out.ret < 0 THEN 0 ELSE out.wnum
    IN IF out.ret < 0 /\ e.err_code \notin intercepted
       THEN [at_start EXCEPT
               !.ok = FALSE,
               !.err_code = get_last_err(out.lasterr).err_code,
               !.native_failed = TRUE,
               !.native_code = out.lasterr,
               !.calls = <<NativeOf.wait>> \o Translate \o Translate]
       ELSE [at_start EXCEPT
               !.rds = Take(readfs, rnum),
               !.wrs = Take(writefs, wnum),
               !.native_failed = (out.ret < 0),
               !.native_code = IF out.ret < 0 THEN out.lasterr ELSE 0,
               !.calls = IF out.ret < 0
                         THEN <<NativeOf.wait>> \o Translate
                         ELSE <<NativeOf.wait>>]

\* Epoll::wait up to the native call, then wait_return
wait_with(timeout, write, intercepted) ==
    /\ created
    /\ LET rnum0 == Len(rd_vec)
           wnum0 == IF ~write THEN 0 ELSE Len(wr_vec)
           at_start == [NoRes EXCEPT
                          !.op = "wait", !.timeout = timeout,
                          !.write = write,
                          !.rd_len0 = Len(rd_vec), !.wr_len0 = Len(wr_vec),
                          !.registered0 = registered,
                          !.listening0 =
                              { h \in registered :
                                  status[h] = "LISTENING" /\ pending[h] > 0 }]
       IN \E out \in udt_epoll_wait2(rd_vec, rnum0, wr_vec, wnum0,
                                     write, timeout) :
            /\ rd_vec' = out.readfs
            /\ wr_vec' = out.writefs
            /\ last' = wait_return(at_start, out, rd_vec', wr_vec',
                                   intercepted)
    /\ UNCHANGED <<status, sockname, pending, registered, created>>
    /\ UNCHANGED optVars
    /\ UNCHANGED <<dataVars, udpVars, peername, proc, epoll2>>

\* wait as it would be if the timeout code were not intercepted
wait_timeout_is_error(timeout, write) ==
    wait_with(timeout, write, {})

\* wait as it would be if every failure of the native call were swallowed
wait_swallows_errors(timeout, write) ==
    wait_with(timeout, write, {ETIMEOUT} \cup WaitFaults)

\* wait as it would be if the buffers were cut down to the handles the engine
\* stored
wait_truncates(timeout, write) ==
    /\ created
    /\ LET rnum0 == Len(rd_vec)
           wnum0 == IF ~write THEN 0 ELSE Len(wr_vec)
           at_start == [NoRes EXCEPT
                          !.op = "wait", !.timeout = timeout,
                          !.write = write,
                          !.rd_len0 = Len(rd_vec), !.wr_len0 = Len(wr_vec),
                          !.registered0 = registered]
       IN \E out \in udt_epoll_wait2(rd_vec, rnum0, wr_vec, wnum0,
                                     write, timeout) :
            /\ rd_vec' = IF out.ret < 0 THEN out.readfs
                         ELSE Take(out.readfs, out.rnum)
            /\ wr_vec' = IF out.ret < 0 THEN out.writefs
                         ELSE Take(out.writefs, out.wnum)
            /\ last' = wait_return(at_start, out, out.readfs, out.writefs,
                                   {6003})
    /\ UNCHANGED <<status, sockname, pending, registered, created>>
    /\ UNCHANGED optVars
    /\ UNCHANGED <<dataVars, udpVars, peername, proc, epoll2>>

\* wait as it would be if the write buffer were handed to the engine whatever
\* the write flag says
wait_ignores_write(timeout, write) ==
    /\ created
    /\ LET rnum0 == Len(rd_vec)
           wnum0 == Len(wr_vec)
           at_start == [NoRes EXCEPT
                          !.op = "wait", !.timeout = timeout,
                          !.write = write,
                          !.rd_len0 = Len(rd_vec), !.wr_len0 = Len(wr_vec),
                          !.registered0 = registered]
       IN \E out \in udt_epoll_wait2(rd_vec, rnum0, wr_vec, wnum0,
                                     TRUE, timeout) :
            /\ rd_vec' = out.readfs
            /\ wr_vec' = out.writefs
            /\ last' = wait_return(at_start, out, rd_vec', wr_vec', {6003})
    /\ UNCHANGED <<status, sockname, pending, registered, created>>
    /\ UNCHANGED optVars
    /\ UNCHANGED <<dataVars, udpVars, peername, proc, epoll2>>

\* Epoll::wait
wait(timeout, write) ==
    wait_with(timeout, write, {6003})

(***************************************************************************)
(* The same calls on a second Epoll object (eid 1 in the results): every   *)
(* method works on the eid, rd_vec and wr_vec of the object it is called   *)
(* on.                                                                     *)
(***************************************************************************)
thisEpoll == <<engineVars, epollVars, set_log, dataVars, udpVars, peername,
               proc>>

\* Epoll::create, a second time
create2 ==
    /\ ~epoll2.created
    /\ epoll2' = [NoEpoll EXCEPT !.created = TRUE]
    /\ last' = [Ok("create", 0) EXCEPT !.eid = 1]
    /\ UNCHANGED thisEpoll

\* Epoll::add_usock on the second Epoll
add_usock2(h) ==
    /\ epoll2.created
    /\ h \in Allocated
    /\ Len(epoll2.rd_vec) < MaxBuf
    /\ LET ret == udt_epoll_add_usock(h)
       IN IF ret = 0
          THEN /\ epoll2' = [epoll2 EXCEPT
                               !.registered = @ \cup {h},
                               !.wr_vec = Append(@, -1),
                               !.rd_vec = Append(@, -1)]
               /\ last' = [Ok("add_usock", h) EXCEPT !.eid = 1]
          ELSE /\ last' = [Err("add_usock", h, ret) EXCEPT !.eid = 1]
               /\ UNCHANGED epoll2
    /\ UNCHANGED thisEpoll

\* wait on the second Epoll as it would be if the two buffers were shared
\* by all Epoll objects
wait2_shared_buffers(timeout, write) ==
    /\ epoll2.created
    /\ LET rnum0 == Len(rd_vec)
           wnum0 == IF ~write THEN 0 ELSE Len(wr_vec)
           at_start == [NoRes EXCEPT
                          !.op = "wait", !.timeout = timeout,
                          !.write = write, !.eid = 1,
                          !.rd_len0 = Len(rd_vec), !.wr_len0 = Len(wr_vec),
                          !.registered0 = epoll2.registered]
       IN \E out \in epoll_wait2_of(epoll2.registered, rd_vec, rnum0,
                                    wr_vec, wnum0, write, timeout) :
            /\ rd_vec' = out.readfs
            /\ wr_vec' = out.writefs
            /\ last' = wait_return(at_start, out, out.readfs, out.writefs,
                                   {6003})
    /\ UNCHANGED <<engineVars, created, set_log, dataVars, udpVars>>
    /\ UNCHANGED <<peername, proc, epoll2>>

\* Epoll::wait on the second Epoll
wait2(timeout, write) ==
    /\ epoll2.created
    /\ LET rnum0 == Len(epoll2.rd_vec)
           wnum0 == IF ~write THEN 0 ELSE Len(epoll2.wr_vec)
           at_start == [NoRes EXCEPT
                          !.op = "wait", !.timeout = timeout,
                          !.write = write, !.eid = 1,
                          !.rd_len0 = Len(epoll2.rd_vec),
                          !.wr_len0 = Len(epoll2.wr_vec),
                          !.registered0 = epoll2.registered]
       IN \E out \in epoll_wait2_of(epoll2.registered, epoll2.rd_vec, rnum0,
                                    epoll2.wr_vec, wnum0, write, timeout) :
            /\ epoll2' = [epoll2 EXCEPT !.rd_vec = out.readfs,
                                        !.wr_vec = out.writefs]
            /\ last' = wait_return(at_start, out, out.readfs, out.writefs,
                                   {6003})
    /\ UNCHANGED thisEpoll

(***************************************************************************)
(* UdtSocket: options.                                                     *)
(***************************************************************************)
\* getsockopt as it would be if the engine were handed a copy of val
getsockopt_returns_zeroed(h, d) ==
    /\ h \in Allocated
    /\ HasDefault(OptType[d])
    /\ LET B == OptType[d]
           val == Zeros(size_of(B))
           ty == get_type(d)
           size == size_of(B)
           ret == udt_getsockopt(h, ty)
       IN IF ret = SUCCESS
          THEN /\ \E n \in EngineOptLens(h, EngineOptName(ty), size) :
                    last' = [Ok("getsockopt", h) EXCEPT
                               !.opt = d,
                               !.val = from_raw(B, val),
                               !.native_optname = ty,
                               !.native_optlen = n]
          ELSE /\ last' = [Err("getsockopt", h, ret) EXCEPT
                             !.opt = d, !.native_optname = ty]
    /\ UNCHANGED <<status, sockname, pending, registered, epollVars, optVars>>
    /\ UNCHANGED <<dataVars, udpVars, peername, proc, epoll2>>

\* UdtSocket::getsockopt
getsockopt(h, d) ==
    /\ h \in Allocated
    /\ HasDefault(OptType[d])
    /\ LET B == OptType[d]
           val0 == Zeros(size_of(B))
           ty == get_type(d)
           size == size_of(B)
           ret == udt_getsockopt(h, ty)
       IN IF ret = SUCCESS
          THEN /\ \E n \in EngineOptLens(h, EngineOptName(ty), size) :
                    LET val == StoreBytes(val0,
                                          EngineValue(h, EngineOptName(ty)), n)
                    IN last' = [Ok("getsockopt", h) EXCEPT
                                  !.opt = d,
                                  !.val = from_raw(B, val),
                                  !.native_optname = ty,
                                  !.native_optlen = n,
                                  !.optsize = size]
          ELSE /\ last' = [Err("getsockopt", h, ret) EXCEPT
                             !.opt = d, !.native_optname = ty,
                             !.optsize = size]
    /\ UNCHANGED <<status, sockname, pending, registered, epollVars, optVars>>
    /\ UNCHANGED <<dataVars, udpVars, peername, proc, epoll2>>

\* UdtSocket::setsockopt
setsockopt(h, d, value) ==
    /\ h \in Allocated
    /\ \/ Cardinality(set_log) < MaxSets
       \/ \E t \in set_log : t[1] = h /\ t[2] = d
    /\ LET B == OptType[d]
           ty == get_type(d)
           val_p == raw_bytes(B, value)
           size == size_of(B)
           ret == udt_setsockopt(h, ty, val_p, size)
           name == EngineOptName(ty)
       IN IF ret = SUCCESS
          THEN /\ opts' = [opts EXCEPT ![h][name] =
                              SubSeq(val_p, 1, Len(DefaultOpts[name]))]
               /\ set_log' =
                      { t \in set_log : ~(t[1] = h /\ t[2] = d) }
                          \cup { <<h, d, value>> }
               /\ last' = [Ok("setsockopt", h) EXCEPT
                             !.opt = d, !.val = value,
                             !.native_optname = ty, !.native_optlen = size,
                             !.optsize = size]
          ELSE /\ last' = [Err("setsockopt", h, ret) EXCEPT
                             !.opt = d, !.val = value,
                             !.native_optname = ty, !.native_optlen = size,
                             !.optsize = size]
               /\ UNCHANGED <<opts, set_log>>
    /\ UNCHANGED <<status, sockname, pending, registered, epollVars, abi>>
    /\ UNCHANGED <<dataVars, udpVars, peername, proc, epoll2>>

\* the multiplexer over sockets that are created, bound, put to listen and
\* connected to; closing sockets is explored under SpecOpt
Next ==
    \/ new("Stream")
    \/ \E h \in SockIds, name \in BindAddrs : bind(h, name)
    \/ \E h \in SockIds : listen(h)
    \/ \E h \in SockIds : PeerConnect(h)
    \/ \E h \in SockIds : accept(h)
    \/ create
    \/ \E h \in SockIds : add_usock(h)
    \/ \E h \in SockIds : remove_usock(h)
    \/ \E timeout \in Timeouts, write \in BOOLEAN : wait(timeout, write)

Spec == Init /\ [][Next]_vars

\* the lifecycle of sockets: creation, binding, connecting out, listening,
\* accepting and closing, with callers that may hold IPv6 addresses
NextLife ==
    \/ new("Stream")
    \/ \E h \in SockIds, name \in LifeAddrs : bind(h, name)
    \/ \E h \in SockIds, name \in ConnectAddrs : connect(h, name)
    \/ \E h \in SockIds : listen(h)
    \/ \E h \in SockIds : PeerConnect(h)
    \/ \E h \in SockIds : accept(h)
    \/ \E h \in SockIds : close(h)

SpecLife == Init /\ [][NextLife]_vars

\* one listener right after new, bind and listen (tests/test.rs,
\* test_epoll): handle 1 is Listening on an ephemeral port
InitListener ==
    /\ status = [h \in SockIds |-> IF h = 1 THEN "LISTENING" ELSE "NONEXIST"]
    /\ sockname = [h \in SockIds |->
                     IF h = 1 THEN EngineWire(EphemeralBase + h) ELSE <<>>]
    /\ pending = [h \in SockIds |-> 0]
    /\ registered = {}
    /\ created = FALSE
    /\ rd_vec = <<>>
    /\ wr_vec = <<>>
    /\ opts = [h \in SockIds |-> DefaultOpts]
    /\ abi = "documented"
    /\ set_log = {}
    /\ kind = [h \in SockIds |-> "Stream"]
    /\ rcvq = [h \in SockIds |-> <<>>]
    /\ hist = NoHist
    /\ fds = {}
    /\ udp_of = [h \in SockIds |-> 0]
    /\ peername = [h \in SockIds |-> <<>>]
    /\ proc = NoProc
    /\ epoll2 = NoEpoll
    /\ last = NoRes

\* two Epoll objects over the listener and the sockets it accepts, each
\* socket added to an Epoll at most once
NextTwo ==
    \/ \E h \in SockIds : PeerConnect(h)
    \/ \E h \in SockIds : accept(h)
    \/ create
    \/ \E h \in SockIds \ registered : add_usock(h)
    \/ \E write \in BOOLEAN : wait(0, write)
    \/ create2
    \/ \E h \in SockIds \ epoll2.registered : add_usock2(h)
    \/ \E write \in BOOLEAN : wait2(0, write)

SpecTwo == InitListener /\ [][NextTwo]_vars

\* servers that bind to a port of their choice or of the engine's, listen
\* and accept, and ask for the addresses of their sockets
NextName ==
    \/ new("Stream")
    \/ \E h \in SockIds, name \in NameAddrs : bind(h, name)
    \/ \E h \in SockIds : listen(h)
    \/ \E h \in SockIds : PeerConnect(h)
    \/ \E h \in SockIds : accept(h)
    \/ \E h \in SockIds : getpeername(h)
    \/ \E h \in SockIds : getsockname(h)

SpecName == Init /\ [][NextName]_vars

\* sockets bound to UDP sockets the caller has opened
NextUdp ==
    \/ new("Stream")
    \/ UdpSocket_bind
    \/ \E h \in SockIds, other \in 1..MaxSocks : bind_from(h, other)
    \/ \E h \in SockIds : listen(h)
    \/ \E h \in SockIds : close(h)

SpecUdp == Init /\ [][NextUdp]_vars

(***************************************************************************)
(* UdtSocket: data transfer.                                               *)
(***************************************************************************)
\* the bytes a caller sends next: numbered on from the bytes sent so far
NextBytes(len) == [i \in 1..len |-> hist.n + i]

\* the buffers callers pass to sendmsg and send
SendBufs == { NextBytes(len) : len \in 1..MaxLen }

\* the lengths callers pass to recvmsg and recv
RecvLens == 1..(MaxLen + 1)

\* sendmsg(buf) with ttl and inorder as the trailing arguments of the native
\* call (msgopts: what the engine was handed)
sendmsg_call(h, buf, ttl, inorder) ==
    /\ h \in Allocated
    /\ hist.n + Len(buf) <= MaxSent
    /\ \E out \in udt_sendmsg(h, buf, ttl, inorder) :
         IF out.ret = UDT_ERROR
         THEN /\ last' = [Err("sendmsg", h, out.lasterr) EXCEPT
                            !.len = Len(buf), !.msgopts = <<ttl, inorder>>]
              /\ UNCHANGED <<rcvq, hist>>
         ELSE /\ last' = [Ok("sendmsg", h) EXCEPT
                            !.len = Len(buf), !.ret = out.ret,
                            !.msgopts = <<ttl, inorder>>]
              /\ rcvq' = [rcvq EXCEPT ![Peer(h)] = out.q]
              /\ hist' = [hist EXCEPT
                            !.sent = Append(@, Take(buf, out.ret)),
                            !.n = @ + out.ret]
    /\ UNCHANGED <<engineVars, epollVars, set_log, kind, udpVars, peername, proc, epoll2>>

\* sendmsg with the two trailing arguments of the native call exchanged
sendmsg_swaps_ttl_inorder(h, buf) == sendmsg_call(h, buf, 1, -1)

\* UdtSocket::sendmsg
sendmsg(h, buf) == sendmsg_call(h, buf, -1, 1)

\* send that takes a partial transfer for a failure
send_partial_is_err(h, buf) ==
    /\ h \in Allocated
    /\ hist.n + Len(buf) <= MaxSent
    /\ \E out \in udt_send(h, buf) :
         IF out.ret # Len(buf)
         THEN /\ last' = [Err("send", h, out.lasterr) EXCEPT
                            !.len = Len(buf)]
              /\ rcvq' = [rcvq EXCEPT ![Peer(h)] = out.q]
              /\ UNCHANGED hist
         ELSE /\ last' = [Ok("send", h) EXCEPT
                            !.len = Len(buf), !.ret = out.ret]
              /\ rcvq' = [rcvq EXCEPT ![Peer(h)] = out.q]
              /\ hist' = [hist EXCEPT
                            !.sent = @ \o Take(buf, out.ret),
                            !.n = @ + out.ret]
    /\ UNCHANGED <<engineVars, epollVars, set_log, kind, udpVars, peername, proc, epoll2>>

\* UdtSocket::send
send(h, buf) ==
    /\ h \in Allocated
    /\ hist.n + Len(buf) <= MaxSent
    /\ \E out \in udt_send(h, buf) :
         IF out.ret = UDT_ERROR
         THEN /\ last' = [Err("send", h, out.lasterr) EXCEPT
                            !.len = Len(buf)]
              /\ UNCHANGED <<rcvq, hist>>
         ELSE /\ last' = [Ok("send", h) EXCEPT
                            !.len = Len(buf), !.ret = out.ret]
              /\ rcvq' = [rcvq EXCEPT ![Peer(h)] = out.q]
              /\ hist' = [hist EXCEPT
                            !.sent = @ \o Take(buf, out.ret),
                            !.n = @ + out.ret]
    /\ UNCHANGED <<engineVars, epollVars, set_log, kind, udpVars, peername, proc, epoll2>>

\* recvmsg(len) with a zero-filled buffer v of cap bytes handed to the
\* engine, and the result cut to the returned count or not
recvmsg_call(h, len, cap, truncate) ==
    /\ h \in Allocated
    /\ \E out \in udt_recvmsg(h, cap) :
         LET v == StoreBytes(Zeros(cap), out.data, out.ret)
         IN IF out.ret > 0
            THEN /\ last' = [Ok("recvmsg", h) EXCEPT
                               !.len = len, !.ret = out.ret,
                               !.data = IF truncate THEN Take(v, out.ret)
                                        ELSE v]
                 /\ rcvq' = [rcvq EXCEPT ![h] = out.q]
                 /\ hist' = [hist EXCEPT
                               !.rcvd = Append(@, [len |-> len,
                                                   data |-> last'.data])]
            ELSE /\ \E code \in (IF out.ret = UDT_ERROR THEN {out.lasterr}
                                 ELSE StaleCodes) :
                      last' = [Err("recvmsg", h, code) EXCEPT
                                 !.len = len, !.ret = out.ret,
                                 !.native_failed = (out.ret = UDT_ERROR),
                                 !.native_code = out.lasterr]
                 /\ UNCHANGED <<rcvq, hist>>
    /\ UNCHANGED <<engineVars, epollVars, set_log, kind, udpVars, peername, proc, epoll2>>

\* recvmsg without v.truncate(ret)
recvmsg_keeps_padding(h, len) == recvmsg_call(h, len, len, FALSE)

\* recvmsg that tells the engine the buffer holds one byte more than len
recvmsg_overstates_len(h, len) == recvmsg_call(h, len, len + 1, TRUE)

\* UdtSocket::recvmsg
recvmsg(h, len) == recvmsg_call(h, len, len, TRUE)

\* UdtSocket::recv into a buffer of len bytes
recv(h, len) ==
    /\ h \in Allocated
    /\ \E out \in udt_recv(h, len) :
         LET buf == StoreBytes(Zeros(len), out.data, out.ret)
         IN IF out.ret = UDT_ERROR
            THEN /\ last' = [Err("recv", h, out.lasterr) EXCEPT !.len = len]
                 /\ UNCHANGED <<rcvq, hist>>
            ELSE /\ last' = [Ok("recv", h) EXCEPT
                               !.len = len, !.ret = out.ret, !.data = buf]
                 /\ rcvq' = [rcvq EXCEPT ![h] = out.q]
                 /\ hist' = [hist EXCEPT !.rcvd = @ \o Take(buf, out.ret)]
    /\ UNCHANGED <<engineVars, epollVars, set_log, kind, udpVars, peername, proc, epoll2>>

\* UdtSocket::recv(buf, len) with a buf of buflen bytes: the engine is given
\* buf.as_mut_ptr() and len, and stores out.ret bytes from that address on.
\* What it stores past the end of buf lands in memory that is not buf's:
\* the call returns as if nothing had happened or the process is brought
\* down.  data is buf as the caller finds it afterwards.
recv_into(h, buflen, len) ==
    /\ h \in Allocated
    /\ \E out \in udt_recv(h, len) :
         LET buf == StoreBytes(Zeros(buflen), out.data, out.ret)
         IN IF out.ret = UDT_ERROR
            THEN /\ last' = [Err("recv", h, out.lasterr) EXCEPT
                               !.len = len, !.buflen = buflen]
                 /\ UNCHANGED <<rcvq, hist>>
            ELSE /\ \/ last' = [Ok("recv", h) EXCEPT
                                  !.len = len, !.buflen = buflen,
                                  !.ret = out.ret, !.data = buf]
                    \/ /\ out.ret > buflen
                       /\ last' = [Aborted("recv", h, "memory fault") EXCEPT
                                     !.len = len, !.buflen = buflen,
                                     !.ret = out.ret]
                 /\ rcvq' = [rcvq EXCEPT ![h] = out.q]
                 /\ hist' = [hist EXCEPT !.rcvd = @ \o Take(buf, out.ret)]
    /\ UNCHANGED <<engineVars, epollVars, set_log, kind, udpVars, peername, proc, epoll2>>

\* one connection right after the handshake (tests/test.rs): both ends
\* Connected, of the same SocketType, nothing sent yet
InitPair ==
    /\ status = [h \in SockIds |->
                   IF h \in {Client, Server} THEN "CONNECTED" ELSE "NONEXIST"]
    /\ sockname = [h \in SockIds |->
                     IF h \in {Client, Server}
                     THEN EngineWire(EphemeralBase + h) ELSE <<>>]
    /\ pending = [h \in SockIds |-> 0]
    /\ registered = {}
    /\ created = FALSE
    /\ rd_vec = <<>>
    /\ wr_vec = <<>>
    /\ \E t \in RcvTimeos :
         opts = [h \in SockIds |->
                   [DefaultOpts EXCEPT !.UDT_RCVTIMEO = IntBytes(t, 4)]]
    /\ abi = "documented"
    /\ set_log = {}
    /\ \E ty \in SocketTypes : kind = [h \in SockIds |-> ty]
    /\ rcvq = [h \in SockIds |-> <<>>]
    /\ hist = NoHist
    /\ fds = {}
    /\ udp_of = [h \in SockIds |-> 0]
    /\ peername = [h \in SockIds |-> <<>>]
    /\ proc = NoProc
    /\ epoll2 = NoEpoll
    /\ last = NoRes

\* the client sends, the server receives
NextData ==
    \/ \E buf \in SendBufs : sendmsg(Client, buf)
    \/ \E len \in RecvLens : recvmsg(Server, len)
    \/ \E buf \in SendBufs : send(Client, buf)
    \/ \E len \in RecvLens : recv(Server, len)

SpecData == InitPair /\ [][NextData]_vars

\* the buffers callers pass to recv
BufLens == 1..MaxLen

\* the client sends, the server receives with a buffer and a len of its
\* choice
NextRecv ==
    \/ \E buf \in SendBufs : send(Client, buf)
    \/ \E buflen \in BufLens, len \in RecvLens : recv_into(Server, buflen, len)

SpecRecv == InitPair /\ [][NextRecv]_vars

(***************************************************************************)
(* AddressCodec on its own: an address is encoded as bind and connect      *)
(* encode it (get_sockaddr, then the transmute to a sockaddr), and the     *)
(* wire record is decoded as accept, getpeername and getsockname decode    *)
(* it.                                                                     *)
(***************************************************************************)
CallGetSockaddr ==
    /\ last.op = "SocketAddr"
    /\ last' = [last EXCEPT
                  !.op = "get_sockaddr",
                  !.wire = transmute_in(get_sockaddr(last.name))]
    /\ UNCHANGED <<engineVars, epollVars, set_log>>
    /\ UNCHANGED <<dataVars, udpVars, peername, proc, epoll2>>

CallSockaddrToSocketaddr ==
    /\ last.op \in {"get_sockaddr", "sockaddr"}
    /\ last' = [last EXCEPT
                  !.op = "sockaddr_to_socketaddr",
                  !.addr = sockaddr_to_socketaddr(last.wire)]
    /\ UNCHANGED <<engineVars, epollVars, set_log>>
    /\ UNCHANGED <<dataVars, udpVars, peername, proc, epoll2>>

NextAddr == CallGetSockaddr \/ CallSockaddrToSocketaddr

SpecAddr == InitAddr /\ [][NextAddr]_vars

(***************************************************************************)
(* Fallible calls made by several threads, each on a handle of its own     *)
(* (thread t holds handle t).  A call is two steps: the native call, which *)
(* on failure leaves its code in the engine's last-error state             *)
(* (proc.lasterr, one for the process), and get_last_err, which reads that *)
(* state.  Nothing in the binding keeps another thread's native call from  *)
(* running between the two.  proc.own[t] is the code of t's own failure.   *)
(***************************************************************************)
\* the native call of thread t returned ret: Ok(()) at once for SUCCESS,
\* otherwise the thread goes on to get_last_err
native_returned(t, op, ret) ==
    IF ret = SUCCESS
    THEN /\ last' = Ok(op, t)
         /\ UNCHANGED proc
    ELSE /\ proc' = [proc EXCEPT !.pc[t] = op, !.own[t] = ret,
                                 !.lasterr = ret]
         /\ UNCHANGED last

\* UdtSocket::listen up to the return of raw::udt_listen
listen_native(t) ==
    /\ t \in Allocated /\ proc.pc[t] = "idle"
    /\ LET ret == udt_listen(t)
       IN /\ native_returned(t, "listen", ret)
          /\ status' = IF ret = SUCCESS
                       THEN [status EXCEPT ![t] = "LISTENING"] ELSE status
    /\ UNCHANGED <<sockname, pending, registered, epollVars, optVars>>
    /\ UNCHANGED <<dataVars, udpVars, peername, epoll2>>

\* UdtSocket::close up to the return of raw::udt_close
close_native(t) ==
    /\ t \in Allocated /\ proc.pc[t] = "idle"
    /\ LET ret == udt_close(t)
       IN /\ native_returned(t, "close", ret)
          /\ status' = IF ret = SUCCESS
                       THEN [status EXCEPT ![t] = "CLOSED"] ELSE status
          /\ pending' = IF ret = SUCCESS
                        THEN [pending EXCEPT ![t] = 0] ELSE pending
    /\ UNCHANGED <<sockname, registered, epollVars, optVars>>
    /\ UNCHANGED <<dataVars, udpVars, peername, epoll2>>

\* Err(get_last_err()) of the call thread t is in
translate(t) ==
    /\ proc.pc[t] # "idle"
    /\ last' = [Err(proc.pc[t], t, proc.lasterr) EXCEPT
                  !.native_code = proc.own[t]]
    /\ proc' = [proc EXCEPT !.pc[t] = "idle"]
    /\ UNCHANGED <<engineVars, epollVars, set_log>>
    /\ UNCHANGED <<dataVars, udpVars, peername, epoll2>>

NextErr ==
    \/ new("Stream")
    \/ \E h \in SockIds, name \in BindAddrs : bind(h, name)
    \/ \E t \in SockIds : listen_native(t)
    \/ \E t \in SockIds : close_native(t)
    \/ \E t \in SockIds : translate(t)

SpecErr == Init /\ [][NextErr]_vars

\* the option calls on one socket, from its creation to after its close:
\* the engine keeps the options of each socket apart (opts[h])
NextOpt ==
    \/ (Allocated = {} /\ new("Stream"))
    \/ \E h \in SockIds : close(h)
    \/ \E h \in SockIds, d \in UdtOpts : getsockopt(h, d)
    \/ \E h \in SockIds, d \in UdtOpts :
           \E value \in OptVals(OptType[d]) : setsockopt(h, d, value)

SpecOpt == Init /\ [][NextOpt]_vars

\* the same calls against an engine whose reported byte counts are not
\* constrained
SpecOptUntyped == InitUntyped /\ [][NextOpt]_vars

(***************************************************************************)
(* Properties of Epoll (checked under Spec).                               *)
(***************************************************************************)

\* C1: when the native wait fails and the last-error code is 6003, wait
\* returns Ok with an empty read-ready list and an empty write-ready list.
C1_TimeoutIsEmptyOk ==
    (last.op = "wait" /\ last.native_failed /\ last.native_code = ETIMEOUT)
        => (last.ok /\ last.rds = <<>> /\ last.wrs = <<>>)

\* a wait that timed out while the buffers held entries
C1_Witness ==
    /\ last.op = "wait"
    /\ last.native_failed
    /\ last.native_code = ETIMEOUT
    /\ last.rd_len0 > 0
    /\ last.write
    /\ last.wr_len0 > 0

\* C2: when the native wait fails with a last-error code other than 6003,
\* wait returns Err carrying exactly that code and no ready lists.
C2_OtherCodesPropagate ==
    (last.op = "wait" /\ last.native_failed /\ last.native_code # ETIMEOUT)
        => (/\ ~last.ok
            /\ last.err_code = last.native_code
            /\ last.rds = <<>>
            /\ last.wrs = <<>>)

\* a wait whose native call failed with a code other than the timeout
C2_Witness ==
    /\ last.op = "wait"
    /\ last.native_failed
    /\ last.native_code \in WaitFaults
    /\ ~last.ok
    /\ last.rd_len0 > 0

\* C3: at the start of every wait the length of each result buffer equals
\* the number of handles registered in the engine's event set.
C3_BufLenEqualsRegistered ==
    last.op = "wait" =>
        /\ last.rd_len0 = Cardinality(last.registered0)
        /\ last.wr_len0 = Cardinality(last.registered0)

\* C4 as claimed: remove_usock of a handle that is not registered returns
\* Err and leaves the registered set unchanged.
C4_RemoveUnregisteredIsErr ==
    (last.op = "remove_usock" /\ last.h \notin last.registered0)
        => (~last.ok /\ registered = last.registered0)

\* C4 as amended: remove_usock of a handle that is not registered returns
\* Ok and leaves the registered set unchanged.
C4_RemoveUnregisteredIsOk ==
    (last.op = "remove_usock" /\ last.h \notin last.registered0)
        => (last.ok /\ registered = last.registered0)

\* a remove_usock of a handle that was not registered, on an event set that
\* has another handle registered
C4_Witness ==
    /\ last.op = "remove_usock"
    /\ last.h \notin last.registered0
    /\ last.registered0 # {}

\* C5: once a peer has connected to a registered listening handle, a wait
\* with a positive timeout reports the handle as read-ready, and accept on
\* the reported handle finds a queued connection (it does not block) and
\* returns a new Connected handle.
C5_ListenerReadiness ==
    /\ (last.op = "wait" /\ last.timeout > 0) =>
           \A h \in last.listening0 : last.ok /\ h \in Range(last.rds)
    /\ (last.op = "wait" /\ last.ok) =>
           \A h \in Range(last.rds) \cap last.listening0 :
               status[h] = "LISTENING" /\ pending[h] > 0
    /\ (last.op = "accept" /\ last.reported) =>
           /\ last.ok
           /\ last.new \in SockIds \ {last.h}
           /\ status[last.new] = "CONNECTED"

\* an accept that returned a connection on a handle the preceding wait with
\* a positive timeout had reported
C5_Witness ==
    /\ last.op = "accept"
    /\ last.reported
    /\ last.ok
    /\ last.h \in registered
    /\ status[last.new] = "CONNECTED"

(***************************************************************************)
(* Properties of the option calls (checked under SpecOpt, C8 under         *)
(* SpecOptUntyped).                                                        *)
(***************************************************************************)

\* C6: a getsockopt of a descriptor whose latest accepted setsockopt on the
\* same handle stored v succeeds while the socket is open and returns
\* exactly v.
C6_OptionRoundTrip ==
    last.op = "getsockopt" =>
        \A t \in set_log :
            (t[1] = last.h /\ t[2] = last.opt) =>
                /\ last.h \in Live => last.ok
                /\ last.ok => last.val = t[3]

\* a getsockopt that returned a value set before, other than the default
C6_Witness ==
    /\ last.op = "getsockopt"
    /\ last.ok
    /\ last.opt = "UDT_MSS"
    /\ <<last.h, "UDT_MSS", 1400>> \in set_log
    /\ last.val = 1400

\* C7: on an open socket on which no option has been set, getsockopt
\* succeeds and reports UDT_MSS = 1500, UDT_SNDSYN = true, UDT_RCVSYN =
\* true, UDT_FC = 25600, UDT_RENDEZVOUS = false, UDT_SNDTIMEO = -1 and
\* UDT_RCVTIMEO = -1.
C7_FreshDefaults ==
    (/\ last.op = "getsockopt"
     /\ status[last.h] = "OPENED"
     /\ \A t \in set_log : t[1] # last.h) =>
        /\ last.ok
        /\ last.opt = "UDT_MSS" => last.val = 1500
        /\ last.opt = "UDT_SNDSYN" => last.val = TRUE
        /\ last.opt = "UDT_RCVSYN" => last.val = TRUE
        /\ last.opt = "UDT_FC" => last.val = 25600
        /\ last.opt = "UDT_RENDEZVOUS" => last.val = FALSE
        /\ last.opt = "UDT_SNDTIMEO" => last.val = -1
        /\ last.opt = "UDT_RCVTIMEO" => last.val = -1

\* a getsockopt of the window size on a socket no option was set on
C7_Witness ==
    /\ last.op = "getsockopt"
    /\ last.ok
    /\ status[last.h] = "OPENED"
    /\ set_log = {}
    /\ last.opt = "UDT_FC"
    /\ last.val = 25600

\* C8 as claimed: getsockopt returns Ok only when the byte count the engine
\* wrote back equals the size of the descriptor's value type.
C8_SizeChecked ==
    (last.op = "getsockopt" /\ last.ok) =>
        last.native_optlen = size_of(OptType[last.opt])

\* C9 as claimed: no set request for a read-only option is issued to the
\* engine, and no setsockopt of a read-only option changes anything.
C9_ReadOnlyNeverSet ==
    last.op = "setsockopt" =>
        /\ EngineOptName(last.native_optname) \notin EngineReadOnly
        /\ last.opt \in ReadOnlyOpts => ~last.ok

(***************************************************************************)
(* Properties of the address codec (checked under SpecAddr).               *)
(***************************************************************************)

\* C10: decoding the wire record produced by encoding an IPv4 address
\* yields exactly that address.
C10_AddressRoundTrip ==
    (last.op = "sockaddr_to_socketaddr" /\ last.name.fam = "V4") =>
        last.addr = last.name

\* 127.0.0.1:8080 encoded with the port in network byte order and decoded
C10_Witness ==
    /\ last.op = "sockaddr_to_socketaddr"
    /\ last.name = V4(127, 0, 0, 1, 8080)
    /\ last.wire = <<2, 0, 31, 144, 127, 0, 0, 1>> \o Zeros(8)
    /\ last.addr = V4(127, 0, 0, 1, 8080)

\* C12: decoding a wire record whose family tag is not AF_INET never
\* returns an address: it panics, with "ipv6 not yet implemented" for the
\* AF_INET6 tag and with "unknown family type" for every other tag.
C12_DecodeRejectsOtherFamilies ==
    (/\ last.op = "sockaddr_to_socketaddr"
     /\ FromLE16(SubSeq(last.wire, 1, 2)) # AF_INET) =>
        /\ last.addr.fam = "panic"
        /\ last.addr.msg =
              IF FromLE16(SubSeq(last.wire, 1, 2)) = AF_INET6
              THEN "ipv6 not yet implemented"
              ELSE "unknown family type"

\* a record whose tag has AF_INET in its low byte only, rejected as unknown
C12_Witness ==
    /\ last.op = "sockaddr_to_socketaddr"
    /\ SubSeq(last.wire, 1, 2) = <<2, 1>>
    /\ last.addr = Panic("unknown family type")

(***************************************************************************)
(* Properties of the socket lifecycle (checked under SpecLife).            *)
(***************************************************************************)

\* C11: a bind or connect given an IPv6 address aborts with the
\* unsupported-family panic before any native call: no wire record is
\* produced and the status and bound address of every socket stay as they
\* were.
C11_Ipv6EncodeAborts ==
    [][(last'.op \in {"bind", "connect"} /\ last'.name.fam = "V6") =>
          /\ last'.panic = "ipv6 not implemented (yet) in this binding"
          /\ ~last'.ok
          /\ last'.calls = <<>>
          /\ last'.wire = <<>>
          /\ status' = status
          /\ sockname' = sockname]_vars

\* a connect with an IPv6 address on an open socket that a bind had bound
C11_Witness ==
    /\ last.op = "connect"
    /\ last.name.fam = "V6"
    /\ last.panic # ""
    /\ status[last.h] = "OPENED"
    /\ sockname[last.h] # <<>>

\* C18: the UDP socket handed to bind_from stays open for the engine: as
\* long as a socket bound with bind_from is not closed, the descriptor the
\* engine uses for it is an open one.
C18_UdpSocketStaysOpen ==
    \A h \in Live : udp_of[h] # 0 => udp_of[h] \in fds

\* C17: when the native call of an operation reports failure, the native
\* calls the operation makes are that call followed by one translation of
\* the last error (its description, then its code) and nothing else.
C17_TranslatedOnce ==
    last.native_failed => last.calls = <<NativeOf[last.op]>> \o Translate

\* C24: an add_usock of a live handle that directly follows the
\* remove_usock that took that handle out of the event set returns Ok, and
\* the handle is registered again.
C24_AddAfterRemove ==
    (last.op = "add_usock" /\ last.readd /\ last.h \in Live) =>
        (last.ok /\ last.h \in registered)

\* a listener was added, removed and added again, and with a connection
\* queued on it the engine has it among the handles a wait reports
C24_Witness ==
    /\ last.op = "add_usock" /\ last.readd /\ last.ok
    /\ Len(rd_vec) = 2
    /\ last.h \in ReadReady \cap registered

(***************************************************************************)
(* Properties of data transfer (checked under SpecData).                   *)
(***************************************************************************)
IsPrefix(s, t) == Len(s) <= Len(t) /\ s = SubSeq(t, 1, Len(s))

\* C13: on a connected Datagram pair the i-th successful recvmsg returns the
\* i-th message sent, and when its len is at least the message's length it
\* returns exactly that message: the same bytes, the same length, nothing of
\* the next message and no padding.
C13_WholeMessage ==
    kind[Server] = "Datagram" =>
        /\ Len(hist.rcvd) <= Len(hist.sent)
        /\ \A i \in 1..Len(hist.rcvd) :
              hist.rcvd[i].len >= Len(hist.sent[i]) =>
                  hist.rcvd[i].data = hist.sent[i]

\* a recvmsg with room to spare returned one message while another waited
C13_Witness ==
    /\ kind[Server] = "Datagram"
    /\ last.op = "recvmsg" /\ last.ok
    /\ last.len > Len(last.data)
    /\ last.data = hist.sent[Len(hist.rcvd)]
    /\ rcvq[Server] # <<>>

\* C14: a recvmsg whose len is smaller than the pending message returns the
\* first len bytes of it and the message is gone: the following recvmsg
\* returns (a prefix of) the following message, never the remainder.
C14_Truncation ==
    kind[Server] = "Datagram" =>
        /\ \A i \in 1..Len(hist.rcvd) :
              hist.rcvd[i].len < Len(hist.sent[i]) =>
                  hist.rcvd[i].data = Take(hist.sent[i], hist.rcvd[i].len)
        /\ rcvq[Server] =
              SubSeq(hist.sent, Len(hist.rcvd) + 1, Len(hist.sent))

\* after a truncated recvmsg the next recvmsg returned the next message
C14_Witness ==
    /\ kind[Server] = "Datagram"
    /\ Len(hist.rcvd) = 2
    /\ hist.rcvd[1].len < Len(hist.sent[1])
    /\ hist.rcvd[1].data = Take(hist.sent[1], 1)
    /\ hist.rcvd[2].data = hist.sent[2]
    /\ last.op = "recvmsg" /\ last.ok

\* C15: on a connected Stream pair the bytes returned by the recv calls so
\* far are a prefix of the bytes accepted by the send calls so far, the rest
\* being exactly what the engine still holds; and a send or recv whose
\* native call did not fail returns Ok with the count transferred, which may
\* be smaller than the count asked for.
C15_StreamOrdering ==
    kind[Server] = "Stream" =>
        /\ IsPrefix(hist.rcvd, hist.sent)
        /\ hist.rcvd \o rcvq[Server] = hist.sent
        /\ (last.op \in {"send", "recv"} /\ ~last.native_failed) =>
              /\ last.ok
              /\ last.ret <= last.len
              /\ last.op = "recv" =>
                    Take(last.data, last.ret) =
                        SubSeq(hist.sent, Len(hist.rcvd) - last.ret + 1,
                               Len(hist.rcvd))

\* a recv that asked for more than there was, after a send that was taken
\* in part, with everything sent now received
C15_Witness ==
    /\ kind[Server] = "Stream"
    /\ last.op = "recv" /\ last.ok /\ last.ret < last.len
    /\ hist.rcvd = hist.sent
    /\ Len(hist.sent) = MaxSent - 1

\* C25: a transfer call whose native call returned 0 without reporting a
\* failure returns Ok, with a result of size zero.
C25_ZeroIsNotAnError ==
    (/\ last.op \in {"sendmsg", "recvmsg", "send"}
     /\ ~last.native_failed
     /\ last.ret = 0) => (last.ok /\ last.data = <<>>)

\* C16: an operation returns Err exactly when its native call reported
\* failure, and the err_code of the UdtError is the code the engine gave
\* for that failure.
C16_ErrCarriesEngineCode ==
    last.op \in {"sendmsg", "recvmsg", "send", "recv"} =>
        /\ last.native_failed => ~last.ok
        /\ ~last.ok => (last.native_failed /\ last.err_code = last.native_code)

(***************************************************************************)
(* Properties of accept and close (checked under SpecLife).                *)
(***************************************************************************)
\* C19: a socket is terminated once: the only call ever made on a socket
\* identifier that is Closed is the close that closed it.
C19_NoCallAfterClose ==
    (last.h \in SockIds /\ status[last.h] = "CLOSED") =>
        (last.op = "close" /\ last.ok)

C21_InitOnce ==
    /\ proc.startups <= 1
    /\ proc.hooks <= 1
    /\ \A t \in Threads :
          proc.pc[t] = "returned" =>
              /\ proc.INIT = "COMPLETE"
              /\ proc.startups = 1
              /\ proc.hooks = 1
    /\ proc.exited => proc.cleanups = proc.hooks

\* every thread has returned from init() and the process has exited
C21_Witness ==
    /\ \A t \in Threads : proc.pc[t] = "returned"
    /\ proc.startups = 1
    /\ proc.exited /\ proc.cleanups = 1

(***************************************************************************)
(* Further properties of the lifecycle (checked under SpecLife, SpecName). *)
(***************************************************************************)
\* C22: listen on an open handle with no bound address does not pass for a
\* success without effect: a listen that returned Ok has left the handle
\* Listening with an address, and a listen on a handle that is open and
\* still without an address has returned Err with code 5005.
C22_ListenUnbound ==
    last.op = "listen" =>
        /\ last.ok => (/\ status[last.h] = "LISTENING"
                       /\ sockname[last.h] # <<>>)
        /\ (status[last.h] = "OPENED" /\ sockname[last.h] = <<>>) =>
              (~last.ok /\ last.err_code = EUNBOUNDSOCK)

\* listen was refused on a fresh socket, which is still not Listening
C22_Witness ==
    /\ last.op = "listen" /\ ~last.ok
    /\ last.err_code = EUNBOUNDSOCK
    /\ status[last.h] = "OPENED" /\ sockname[last.h] = <<>>

\* C23: the address accept returns with a new handle is the decoded peer
\* address the engine holds for that handle; the engine's peer address of a
\* handle does not change while the handle stays Connected; and getpeername
\* returns the decoded peer address the engine holds.  So getpeername on an
\* accepted handle that is still connected returns what accept returned.
C23_PeerNameOfAccepted ==
    [][/\ (last'.op = "accept" /\ last'.ok) =>
             (/\ peername'[last'.new] # <<>>
              /\ last'.addr = sockaddr_to_socketaddr(peername'[last'.new]))
       /\ \A h \in SockIds :
             (status[h] = "CONNECTED" /\ status'[h] = "CONNECTED") =>
                 peername'[h] = peername[h]
       /\ (last'.op = "getpeername" /\ last'.ok) =>
             (/\ peername'[last'.h] # <<>>
              /\ last'.addr = sockaddr_to_socketaddr(peername'[last'.h]))
       /\ (last'.op = "getpeername" /\ status[last'.h] = "CONNECTED") =>
             last'.ok]_vars

\* getpeername on a handle accept returned, giving the peer's address
C23_Witness ==
    /\ last.op = "getpeername" /\ last.ok
    /\ \E l \in SockIds : status[l] = "LISTENING" /\ l # last.h
    /\ status[last.h] = "CONNECTED"
    /\ last.addr = V4(127, 0, 0, 1, PeerPortBase + last.h)

C28_BuffersKeepLength ==
    /\ Len(rd_vec) = Len(wr_vec)
    /\ last.op = "wait" =>
          /\ Len(rd_vec) = last.rd_len0
          /\ Len(wr_vec) = last.wr_len0

\* a wait over two registered sockets reported fewer handles than the
\* buffers hold
C28_Witness ==
    /\ last.op = "wait" /\ last.ok
    /\ Len(last.rds) + Len(last.wrs) > 0
    /\ Len(last.rds) < Len(rd_vec)
    /\ Len(last.wrs) < Len(wr_vec)
    /\ Len(rd_vec) = MaxBuf

\* what wait(timeout, TRUE) can return in the current state
WaitWithWrite(timeout) ==
    { wait_return(NoRes, out, out.readfs, out.writefs, {6003}) :
        out \in udt_epoll_wait2(rd_vec, Len(rd_vec), wr_vec, Len(wr_vec),
                                TRUE, timeout) }

\* C29: a wait(timeout, false) that returns Ok returns no write-ready
\* socket, leaves wr_vec as it was whether it succeeds or fails, and returns
\* the read-ready list that every successful wait(timeout, true) would have
\* returned from the state it was called in.  (The steps that end with a
\* wait as the last call are the waits and the peer's connection requests;
\* the latter change pending.)
C29_ReadOnlyWait ==
    [][(last'.op = "wait" /\ ~last'.write /\ pending' = pending) =>
          /\ wr_vec' = wr_vec
          /\ last'.ok =>
                /\ last'.wrs = <<>>
                /\ \A r \in WaitWithWrite(last'.timeout) :
                      r.ok => r.rds = last'.rds]_vars

\* a wait(timeout, false) returned a read-ready listener while a registered
\* socket was ready for writing
C29_Witness ==
    /\ last.op = "wait" /\ ~last.write /\ last.ok
    /\ last.rds # <<>>
    /\ WriteReady \cap registered # {}
    /\ \E r \in WaitWithWrite(last.timeout) : r.ok /\ r.wrs # <<>>

\* C30: every sendmsg hands the engine ttl -1 and inorder 1, and on a
\* connected Datagram pair no message is lost or overtaken: the messages
\* accepted so far are the ones the recvmsg calls have returned, one message
\* per call and in the order of sending, followed by the ones still pending
\* at the peer, in the order of sending.
C30_InOrderNoExpiry ==
    /\ last.op = "sendmsg" => last.msgopts = <<-1, 1>>
    /\ kind[Server] = "Datagram" =>
          /\ Len(hist.rcvd) + Len(rcvq[Server]) = Len(hist.sent)
          /\ \A i \in 1..Len(hist.rcvd) :
                /\ hist.rcvd[i].data # <<>>
                /\ IsPrefix(hist.rcvd[i].data, hist.sent[i])
          /\ \A j \in 1..Len(rcvq[Server]) :
                rcvq[Server][j] = hist.sent[Len(hist.rcvd) + j]

\* two messages were sent one after the other and two recvmsg calls
\* returned them, the second sent being the second returned
C30_Witness ==
    /\ kind[Server] = "Datagram"
    /\ last.op = "recvmsg" /\ last.ok
    /\ Len(hist.sent) >= 2
    /\ Len(hist.rcvd) = 2
    /\ IsPrefix(hist.rcvd[1].data, hist.sent[1])
    /\ last.data = hist.sent[2]
    /\ hist.sent[1] # hist.sent[2]

\* C31: every getsockopt and setsockopt hands the engine the identifier
\* that the engine knows under the descriptor's name, and a byte size that
\* is the size of the descriptor's value type (bool 1, i32 4, i64 8,
\* Linger 8) and the size of the value the engine holds for that option.
C31_SizeMatchesType ==
    /\ size_of("bool") = 1 /\ size_of("i32") = 4
    /\ size_of("i64") = 8 /\ size_of("Linger") = 8
    /\ \A d \in UdtOpts :
          /\ EngineOptName(get_type(d)) = d
          /\ d \in EngineWritable =>
                size_of(OptType[d]) = Len(DefaultOpts[d])
    /\ last.op \in {"getsockopt", "setsockopt"} =>
          /\ EngineOptName(last.native_optname) = last.opt
          /\ last.optsize = size_of(OptType[last.opt])
          /\ last.optsize = Len(EngineValue(last.h, last.opt))

\* the 8-byte bandwidth limit was set and a 1-byte flag was read
C31_Witness ==
    /\ last.op = "getsockopt" /\ last.ok
    /\ last.opt = "UDT_RENDEZVOUS" /\ last.optsize = 1
    /\ \E t \in set_log : t[1] = last.h /\ t[2] = "UDT_MAXBW"
    /\ Len(opts[last.h]["UDT_MAXBW"]) = 8

\* C32: the wire record of an IPv4 address a.b.c.d with port p is, byte by
\* byte in memory: the family tag AF_INET as a 16-bit host-order field, the
\* port with its high byte first, the octets a, b, c, d in that order, and
\* eight zero bytes.
C32_WireLayout ==
    (last.op \in {"get_sockaddr", "sockaddr_to_socketaddr"}
       /\ last.name.fam = "V4") =>
        /\ Len(last.wire) = SockaddrLen
        /\ SubSeq(last.wire, 1, 2) = <<AF_INET % 256, AF_INET \div 256>>
        /\ SubSeq(last.wire, 3, 4) =
               <<last.name.port \div 256, last.name.port % 256>>
        /\ SubSeq(last.wire, 5, 8) = last.name.ip
        /\ \A i \in 9..SockaddrLen : last.wire[i] = 0

\* 1.127.128.255 with port 256, four different octets and a port whose two
\* bytes differ, encoded
C32_Witness ==
    /\ last.op = "get_sockaddr"
    /\ last.name = V4(1, 127, 128, 255, 256)
    /\ last.wire = <<2, 0, 1, 0, 1, 127, 128, 255>> \o Zeros(8)

\* C33 as claimed: whatever other threads do between a failing native call
\* and its translation, the UdtError carries the code of the call's own
\* failure.
C33_OwnErrorCode ==
    (last.op \in {"listen", "close"} /\ ~last.ok) =>
        last.err_code = last.native_code

\* C34: with two Epoll objects used in any interleaving, a successful wait
\* returns only handles registered with the Epoll it was called on, and the
\* buffers of an Epoll change only in an add_usock or a wait on that Epoll.
C34_EpollsApart ==
    [][/\ (last'.op = "wait" /\ last'.ok) =>
             Range(last'.rds) \cup Range(last'.wrs) \subseteq
                 (IF last'.eid = 0 THEN registered ELSE epoll2.registered)
       /\ (rd_vec' # rd_vec \/ wr_vec' # wr_vec) =>
             (last'.eid = 0 /\ last'.op \in {"add_usock", "wait"})
       /\ (epoll2'.rd_vec # epoll2.rd_vec \/ epoll2'.wr_vec # epoll2.wr_vec) =>
             (last'.eid = 1 /\ last'.op \in {"add_usock", "wait"})]_vars

\* the second Epoll, holding only the accepted socket, reported it ready
\* for writing while the first Epoll holds only the listener and has
\* reported it ready
C34_Witness ==
    /\ last.op = "wait" /\ last.ok /\ last.eid = 1
    /\ last.wrs # <<>>
    /\ registered # {} /\ epoll2.registered # {}
    /\ registered \cap epoll2.registered = {}
    /\ rd_vec # epoll2.rd_vec
    /\ \E i \in 1..Len(rd_vec) : rd_vec[i] \in registered

NoDuplicates(s) == \A i, j \in 1..Len(s) : s[i] = s[j] => i = j

\* C35: each handle in the read list and in the write list of a successful
\* wait was registered with the Epoll when wait was called, and no list
\* names a handle twice.
C35_ReadyAreRegistered ==
    (last.op = "wait" /\ last.ok) =>
        /\ Range(last.rds) \subseteq last.registered0
        /\ Range(last.wrs) \subseteq last.registered0
        /\ NoDuplicates(last.rds)
        /\ NoDuplicates(last.wrs)

\* a wait returned the one listener still registered while the read buffer
\* still held, behind it, a handle that had been removed
C35_Witness ==
    /\ last.op = "wait" /\ last.ok /\ last.eid = 0
    /\ last.rds # <<>>
    /\ Len(last.rds) < Len(rd_vec)
    /\ \E i \in 1..Len(rd_vec) :
          rd_vec[i] # -1 /\ rd_vec[i] \notin last.registered0

\* C36: no call hands out a handle whose identifier is -1: new and accept
\* return Err when the engine returns INVALID_SOCK, every handle they
\* return is a socket of the engine, and no list returned by wait holds
\* the -1 that add_usock puts in the buffers.
C36_NoInvalidHandle ==
    /\ last.op \in {"new", "accept"} =>
          IF last.ok THEN last.new # INVALID_SOCK /\ last.new \in Live
          ELSE last.native_failed
    /\ (last.op = "new" /\ last.native_failed) => ~last.ok
    /\ (last.op = "wait" /\ last.ok) =>
          -1 \notin Range(last.rds) \cup Range(last.wrs)

\* new was refused a socket by the engine after two sockets had been added
\* to the Epoll and a wait had filled one slot of the read buffer
C36_Witness ==
    /\ last.op = "new" /\ ~last.ok /\ last.err_code = ERESOURCE
    /\ FreeIds = {}
    /\ Len(rd_vec) = MaxBuf
    /\ rd_vec[1] # -1 /\ rd_vec[Len(rd_vec)] = -1

\* C37: rd_vec and wr_vec are never shorter than the number of handles in
\* the engine's event set, so the capacity a wait gives the engine covers
\* every handle that can be ready, and the counts the lists are cut to
\* never exceed the length the buffers had.
C37_CapacityCoversRegistered ==
    /\ Cardinality(registered) <= Len(rd_vec)
    /\ Cardinality(registered) <= Len(wr_vec)
    /\ (last.op = "wait" /\ last.eid = 0) =>
          /\ Cardinality(last.registered0) <= last.rd_len0
          /\ last.write => Cardinality(last.registered0) <= last.wr_len0
          /\ Len(last.rds) <= last.rd_len0
          /\ Len(last.wrs) <= last.wr_len0

\* a wait whose buffers had exactly as many slots as there were registered
\* handles reported every one of them
C37_Witness ==
    /\ last.op = "wait" /\ last.ok /\ last.write
    /\ Cardinality(last.registered0) = MaxBuf
    /\ last.rd_len0 = MaxBuf
    /\ Len(last.rds) + Len(last.wrs) = MaxBuf

\* the public calls a program can make from the start of the process on:
\* init() in any of its threads, UdtSocket::new and Epoll::create.  Neither
\* new nor create calls init() or looks at INIT.
NextStart ==
    \/ NextInit
    \/ ~proc.exited /\ \E ty \in SocketTypes : new(ty)
    \/ ~proc.exited /\ create

SpecStart == Init /\ [][NextStart]_vars

\* C39 as claimed: whenever UdtSocket::new or Epoll::create has reached the
\* engine, the engine's startup (udt_startup, run by init()) has already
\* completed.
C39_StartupBeforeEngine ==
    last.op \in {"new", "create"} => proc.startups > 0

\* C38 as claimed: the byte limit recv hands to the engine is at most the
\* length of the caller's buffer, and the count a recv returns is at most
\* the smaller of len and the buffer's length.
C38_RecvWithinBuffer ==
    last.op = "recv" =>
        /\ last.len <= last.buflen
        /\ last.ok => last.ret <= Min(last.len, last.buflen)

====
